---- MODULE Spec2Model ----
(***************************************************************************)
(* Model of the ArgoCD tool scripts of                                     *)
(* src/argocd_cli/argocd_cli_tools/tools/cli.py.                           *)
(*                                                                         *)
(* Every tool is a shell script run once per invocation; invocations are   *)
(* sequential and share only the cache directory                           *)
(* /workspace/argocd-data/cache.  One action of the model is one whole     *)
(* invocation of a tool (or one step of the sync poll loop).               *)
(*                                                                         *)
(* Time is counted in minutes since 2024-06-01 00:00.  `find -mmin -N`     *)
(* is "age < N minutes", `date +%Y%m%d%H` is the clock hour and            *)
(* `date +%Y%m%d%H%M` the clock minute.  md5sum is idealised as an         *)
(* injective digest: the digest of a string is the string.                 *)
(***************************************************************************)
EXTENDS Integers, Sequences, FiniteSets, TLC

VARIABLES
    now,      \* wall clock, in minutes
    cache,    \* the cache directory: path |-> file, for the files that exist
    last,     \* what the last tool invocation did and printed
    ncalls,   \* number of tool invocations so far
    caller,   \* the read tool this behaviour's caller invokes
    sync,     \* the running argocd_sync_application invocation
    writers,  \* two invocations of one read tool that run at the same time
    templates \* the directory /workspace/observe-data/templates

vars == <<now, cache, last, ncalls, caller, sync, writers, templates>>

----------------------------------------------------------------------------
(* Bounds of the model *)

MaxCalls == 3       \* tool invocations per behaviour
KeyCalls == 2       \* invocations per behaviour of the key-derivation check

\* The clock readings at which invocations are explored: they put an age
\* below, at and above each TTL inside one clock hour (25 -> 40, 50, 55) and
\* an age below every TTL across the hour boundary (50, 55 -> 60).
ClockReadings == {25, 40, 50, 55, 60}

----------------------------------------------------------------------------
(* Program constants *)

AppsTTL == 15        \* find "$CACHE_FILE" -mmin -15
AppTTL == 10         \* find "$CACHE_FILE" -mmin -10
ClustersTTL == 30    \* find "$CACHE_FILE" -mmin -30
ReposTTL == 30       \* find "$CACHE_FILE" -mmin -30
MinutesPerHour == 60 \* date +%Y%m%d%H
HoursPerDay == 24    \* date +%Y%m%d%H

----------------------------------------------------------------------------
(* Shell variables and expansions *)

\* A script argument or environment variable: unset, or set to a string.
Unset == [set |-> FALSE, val |-> ""]
Val(s) == [set |-> TRUE, val |-> s]

\* "$x": the value, the empty string when unset.
Expand(x) == x.val

\* ${x-d}: the default only when x is unset.
DefaultIfUnset(x, d) == IF x.set THEN x.val ELSE d

\* ${x:-d}: the default when x is unset or empty.
Default(x, d) == IF x.val = "" THEN d ELSE x.val

\* $(command): the output with all trailing newlines removed.
RECURSIVE CmdSubst(_)
CmdSubst(s) ==
    IF Len(s) > 0 /\ SubSeq(s, Len(s), Len(s)) = "\n"
    THEN CmdSubst(SubSeq(s, 1, Len(s) - 1))
    ELSE s

\* echo "$s": the string and one newline.
Echo(s) == s \o "\n"

\* The elements of a sequence.
Range(q) == {q[i] : i \in 1..Len(q)}

----------------------------------------------------------------------------
(* date *)

Pad2(n) == IF n < 10 THEN "0" \o ToString(n) ELSE ToString(n)

\* date +%Y%m%d%H at minute t
DateHour(t) ==
    "202406" \o Pad2(1 + (t \div (MinutesPerHour * HoursPerDay)))
             \o Pad2((t \div MinutesPerHour) % HoursPerDay)

\* date +%Y%m%d%H%M at minute t
DateMinute(t) == DateHour(t) \o Pad2(t % MinutesPerHour)

----------------------------------------------------------------------------
(* The cached read tools *)

Tools == {"apps", "app", "clusters", "repos"}

\* The arguments of a call: every argument of every read tool, Unset when
\* the caller does not pass it (or the tool does not declare it).
NoArgs ==
    [limit |-> Unset, offset |-> Unset, project_filter |-> Unset,
     health_filter |-> Unset, sync_filter |-> Unset, app_name |-> Unset,
     repo_type |-> Unset, include_resources |-> Unset, refresh |-> Unset]

\* The environment of a call.
GoodEnv == [ARGOCD_TOKEN |-> "tok", ARGOCD_SERVER |-> "argocd.example"]

\* "Validate environment" / "Validate inputs"
Validate(tool, env, a) ==
    /\ env.ARGOCD_TOKEN /= ""
    /\ env.ARGOCD_SERVER /= ""
    /\ tool = "app" => Expand(a.app_name) /= ""

\* LIMIT=${limit:-50}
LIMIT(a) == Default(a.limit, "50")

\* OFFSET=${offset:-0}
OFFSET(a) == Default(a.offset, "0")

\* REFRESH=${refresh:-"false"}
REFRESH(a) == Default(a.refresh, "false")

\* REPO_TYPE=${repo_type:-"all"}
REPO_TYPE(a) == Default(a.repo_type, "all")

\* INCLUDE_RESOURCES=${include_resources:-"true"}
INCLUDE_RESOURCES(a) == Default(a.include_resources, "true")

\* md5sum | cut -d' ' -f1, idealised as injective
Digest(s) == s

\* The time bucket in each tool's key: $(date +%Y%m%d%H%M) for
\* argocd_get_application, $(date +%Y%m%d%H) for the list tools.
Bucket(tool, t) == IF tool = "app" THEN DateMinute(t) ELSE DateHour(t)

\* A key string that leaves out the health and sync filters.
KeyStringWithoutFilters(tool, a, t) ==
    CASE tool = "apps" ->
           "apps_" \o LIMIT(a) \o "_" \o OFFSET(a) \o "_"
               \o Expand(a.project_filter) \o "_" \o Bucket(tool, t)
      [] tool = "app" -> "app_" \o Expand(a.app_name) \o "_" \o Bucket(tool, t)
      [] tool = "clusters" -> "clusters_" \o Bucket(tool, t)
      [] tool = "repos" -> "repos_" \o REPO_TYPE(a) \o "_" \o Bucket(tool, t)

\* The string each tool hashes: operation name, parameters, time bucket.
KeyString(tool, a, t) ==
    CASE tool = "apps" ->
           "apps_" \o LIMIT(a) \o "_" \o OFFSET(a) \o "_"
               \o Expand(a.project_filter) \o "_" \o Expand(a.health_filter)
               \o "_" \o Expand(a.sync_filter) \o "_" \o Bucket(tool, t)
      [] tool = "app" -> "app_" \o Expand(a.app_name) \o "_" \o Bucket(tool, t)
      [] tool = "clusters" -> "clusters_" \o Bucket(tool, t)
      [] tool = "repos" -> "repos_" \o REPO_TYPE(a) \o "_" \o Bucket(tool, t)

\* CACHE_KEY=$(echo "..." | md5sum | cut -d' ' -f1)
CACHE_KEY(tool, a, t) == Digest(KeyString(tool, a, t))

\* CACHE_FILE="/workspace/argocd-data/cache/<prefix>_${CACHE_KEY}.json"
CACHE_FILE(tool, a, t) ==
    "/workspace/argocd-data/cache/" \o tool \o "_" \o CACHE_KEY(tool, a, t)
        \o ".json"

\* RESOURCES_CACHE="/workspace/argocd-data/cache/resources_${CACHE_KEY}.json"
RESOURCES_CACHE(a, t) ==
    "/workspace/argocd-data/cache/resources_" \o CACHE_KEY("app", a, t)
        \o ".json"

\* The N of find "$CACHE_FILE" -mmin -N
TTL(tool) ==
    CASE tool = "apps" -> AppsTTL
      [] tool = "app" -> AppTTL
      [] tool = "clusters" -> ClustersTTL
      [] tool = "repos" -> ReposTTL

\* find "$f" -mmin -N taken as "age <= N minutes".
FreshInclusive(c, f, n, t) == f \in DOMAIN c /\ t - c[f].mtime <= n

\* find "$f" -mmin +N in place of -mmin -N: "older than N minutes".
FreshOlder(c, f, n, t) == f \in DOMAIN c /\ t - c[f].mtime > n

\* [ -f "$f" ] && [ $(find "$f" -mmin -N | wc -l) -gt 0 ]
Fresh(c, f, n, t) == f \in DOMAIN c /\ t - c[f].mtime < n

\* A cache lookup that ignores REFRESH.
UseCacheIgnoringRefresh(c, f, n, t, a) == Fresh(c, f, n, t)

\* [ "$REFRESH" != "true" ] && [ -f "$f" ] && [ $(find ...) -gt 0 ]
UseCache(c, f, n, t, a) == REFRESH(a) /= "true" /\ Fresh(c, f, n, t)

----------------------------------------------------------------------------
(* The vendor and the filesystem, as seen by one invocation *)

\* What curl -s --fail leaves behind: its exit status and what it printed.
\* 22 is an HTTP error (nothing printed), 28 a timeout in mid-transfer.
FetchResults ==
    {[rc |-> 0, body |-> "\n"], [rc |-> 0, body |-> "r1\n"],
     [rc |-> 0, body |-> "r2"], [rc |-> 22, body |-> ""],
     [rc |-> 28, body |-> "r1"]}

\* Whether the redirection > "$CACHE_FILE" can open the file: "erofs" is a
\* read-only filesystem, the file (if any) stays as it was.
WriteResults == {"ok", "erofs"}

\* echo "$s" >> "$f": the response is appended to the file.
StoreAppend(c, f, s, t, wr) ==
    IF wr = "ok"
    THEN [p \in DOMAIN c \cup {f} |->
            IF p = f
            THEN [mtime |-> t,
                  content |-> IF f \in DOMAIN c THEN c[f].content \o Echo(s)
                              ELSE Echo(s)]
            ELSE c[p]]
    ELSE c

\* echo "$s" > "$CACHE_KEY": the response goes to a file that is not the
\* one the lookup reads.
StoreElsewhere(c, f, s, t, wr) ==
    IF wr = "ok"
    THEN [p \in DOMAIN c \cup {CmdSubst(f) \o ".tmp"} |->
            IF p = CmdSubst(f) \o ".tmp"
            THEN [mtime |-> t, content |-> Echo(s)]
            ELSE c[p]]
    ELSE c

\* echo "$s" > "$f" at minute t
Store(c, f, s, t, wr) ==
    IF wr = "ok"
    THEN [p \in DOMAIN c \cup {f} |->
            IF p = f THEN [mtime |-> t, content |-> Echo(s)] ELSE c[p]]
    ELSE c

\* A read that leaves the file with the time of the read.
AfterCatTouch(c, f, t) == [c EXCEPT ![f].mtime = t]

\* $(cat "$f") at minute t: the directory after the file was read.
AfterCat(c, f, t) == c

\* A test of $? that comes too late and always sees 0.
FetchFailedNever(rc) == FALSE

\* if [ $? -ne 0 ]; then ...; exit 1; fi
FetchFailed(rc) == rc /= 0

\* A test of the response that every response passes.
NonEmptyAlways(response) == TRUE

\* if [ -n "$RESPONSE" ]
NonEmpty(response) == response /= ""

\* Exit status of a run that got past its fetch, under set -e: a failed
\* redirection would end the script.
ExitAfterStoreErrexit(want, stored) == IF want /\ ~stored THEN 1 ELSE 0

\* Exit status of a run that got past its fetch: the script goes on after a
\* failed redirection and ends with the status of its output stage.
ExitAfterStore(want, stored) == 0

----------------------------------------------------------------------------
(* One invocation of a cached read tool *)

\* What an invocation did, as the caller and the vendor see it:
\*   time      the minute of the invocation
\*   valid     the invocation passed the validation of its environment
\*   refresh   $REFRESH
\*   key       $CACHE_KEY
\*   path      $CACHE_FILE
\*   fresh     $CACHE_FILE existed and was younger than the TTL at the start
\*   old       the response in $CACHE_FILE at the start ("" without a file)
\*   requests  the vendor requests sent, in order
\*   fetchrc   the exit status of the primary curl (0 when it did not run)
\*   fetched   the response of the primary request, when it succeeded
\*   hit       the primary response was read from the cache
\*   want      the script tried to write the primary response to the cache
\*   stored    the primary response was written to the cache
\*   resrc     the exit status of the resource-tree curl (0 when it did not run)
\*   error     the error message printed ("" when none)
\*   printed   the output stage ran
\*   out       the primary response handed to the output stage
\*   resOut    RESOURCES_DATA handed to the output stage
\*   exit      the exit status
NoObs ==
    [tool |-> "none", args |-> NoArgs, time |-> 0, valid |-> FALSE,
     refresh |-> "false", key |-> "", path |-> "", fresh |-> FALSE, old |-> "", requests |-> <<>>,
     fetchrc |-> 0, fetched |-> "", hit |-> FALSE, want |-> FALSE,
     stored |-> FALSE, resrc |-> 0, error |-> "", printed |-> FALSE,
     out |-> "", resOut |-> "", exit |-> 0]

\* The script of a read tool, run at minute t on cache directory c with
\* arguments a and environment env; pf and rf are what the primary and the
\* resource-tree request would return, wr what a write to the cache does.
\* The result is the cache directory afterwards and the observation.
RunRead(tool, env, a, c, t, pf, rf, wr) ==
    LET f == CACHE_FILE(tool, a, t)
        hit == UseCache(c, f, TTL(tool), t, a)
        RESPONSE == IF hit THEN CmdSubst(c[f].content) ELSE CmdSubst(pf.body)
        want == ~hit /\ NonEmpty(RESPONSE)
        c1 == IF want THEN Store(c, f, RESPONSE, t, wr)
              ELSE IF hit THEN AfterCat(c, f, t)
              ELSE c
        withRes == tool = "app" /\ INCLUDE_RESOURCES(a) = "true"
        rfile == RESOURCES_CACHE(a, t)
        rhit == withRes /\ UseCache(c1, rfile, AppTTL, t, a)
        RESOURCES_DATA ==
            IF ~withRes THEN ""
            ELSE IF rhit THEN CmdSubst(c1[rfile].content)
            ELSE CmdSubst(rf.body)
        c2 == IF withRes /\ ~rhit /\ rf.rc = 0 /\ NonEmpty(RESOURCES_DATA)
              THEN Store(c1, rfile, RESOURCES_DATA, t, wr)
              ELSE IF rhit THEN AfterCat(c1, rfile, t)
              ELSE c1
        base == [NoObs EXCEPT !.tool = tool, !.args = a, !.time = t,
                              !.refresh = REFRESH(a)]
        began == [base EXCEPT
                    !.valid = TRUE, !.key = CACHE_KEY(tool, a, t), !.path = f,
                    !.fresh = Fresh(c, f, TTL(tool), t),
                    !.old = IF f \in DOMAIN c THEN CmdSubst(c[f].content)
                            ELSE ""]
    IN  IF ~Validate(tool, env, a)
        THEN [cache |-> c,
              obs |-> [base EXCEPT !.error = "missing-parameters", !.exit = 1]]
        ELSE IF ~hit /\ FetchFailed(pf.rc)
        THEN [cache |-> c,
              obs |-> [began EXCEPT !.requests = <<"primary">>,
                                    !.fetchrc = pf.rc,
                                    !.error = "request-failed", !.exit = 1]]
        ELSE [cache |-> c2,
              obs |-> [began EXCEPT
                         !.requests =
                             (IF hit THEN <<>> ELSE <<"primary">>) \o
                             (IF withRes /\ ~rhit THEN <<"resource-tree">>
                              ELSE <<>>),
                         !.fetchrc = IF hit THEN 0 ELSE pf.rc,
                         !.fetched = IF hit THEN "" ELSE RESPONSE,
                         !.hit = hit,
                         !.want = want,
                         !.stored = want /\ wr = "ok",
                         !.resrc = IF withRes /\ ~rhit THEN rf.rc ELSE 0,
                         !.printed = TRUE,
                         !.out = RESPONSE,
                         !.resOut = RESOURCES_DATA,
                         !.exit = ExitAfterStore(want, want /\ wr = "ok")]]

----------------------------------------------------------------------------
(* Inputs of the model *)

Envs ==
    {GoodEnv, [GoodEnv EXCEPT !.ARGOCD_TOKEN = ""],
     [GoodEnv EXCEPT !.ARGOCD_SERVER = ""]}

Refreshes == {Unset, Val("true")}

\* The argument sets the cache behaviours are explored with.
ArgSpace(tool) ==
    CASE tool = "apps" ->
           {[NoArgs EXCEPT !.project_filter = p, !.refresh = r] :
              p \in {Unset, Val("prod")}, r \in Refreshes}
      [] tool = "app" ->
           {[NoArgs EXCEPT !.app_name = n, !.include_resources = i,
                           !.refresh = r] :
              n \in {Unset, Val("web")}, i \in {Unset, Val("false")},
              r \in Refreshes}
      [] tool = "clusters" -> {[NoArgs EXCEPT !.refresh = r] : r \in Refreshes}
      [] tool = "repos" ->
           {[NoArgs EXCEPT !.repo_type = y, !.refresh = r] :
              y \in {Unset, Val("helm")}, r \in Refreshes}

\* A request that is never sent returns nothing.
NotSent == [rc |-> 0, body |-> ""]

\* The results the primary request can have, when the script sends it.
PrimaryResults(tool, env, a, c, t) ==
    IF Validate(tool, env, a)
       /\ ~UseCache(c, CACHE_FILE(tool, a, t), TTL(tool), t, a)
    THEN FetchResults
    ELSE {NotSent}

\* The results the resource-tree request can have, when the script sends it.
ResourceResults(tool, env, a, c, t, pf) ==
    IF /\ Validate(tool, env, a)
       /\ tool = "app"
       /\ INCLUDE_RESOURCES(a) = "true"
       /\ pf.rc = 0
       /\ ~UseCache(c, RESOURCES_CACHE(a, t), AppTTL, t, a)
    THEN {[rc |-> 0, body |-> "t1\n"], [rc |-> 0, body |-> ""],
          [rc |-> 22, body |-> ""]}
    ELSE {NotSent}

\* What a write can do, when the script writes.
StoreResults(pf, rf) ==
    IF (pf.rc = 0 /\ CmdSubst(pf.body) /= "")
       \/ (rf.rc = 0 /\ CmdSubst(rf.body) /= "")
    THEN WriteResults
    ELSE {"ok"}

----------------------------------------------------------------------------
(* Actions *)

\* argocd_sync_application before it is invoked.  The fields of a run:
\*   pc        where the script is: "idle", "sleep" (about to sleep in the
\*             poll loop), "fetch" (about to fetch the operation status),
\*             "final" (about to fetch the final application status), "done"
\*   DRY_RUN, WAIT_FOR_COMPLETION   the script's variables
\*   payload   the dryRun value of the payload posted ("" when jq built none)
\*   i         the loop variable of the poll loop
\*   posts, polls, finals   the sync requests, operation-status fetches and
\*             final application-status fetches sent
\*   sleeps, slept   the sleeps of the poll loop and their seconds in total
\*   phase     $PHASE of the latest operation-status fetch
\*   terminal  some operation-status fetch reported Succeeded, Failed or Error
\*   curlFailed  the requests whose curl ended with a non-zero status
\*   printed   the messages printed
\*   exit      the exit status (-1 while the script runs)
SyncIdle ==
    [pc |-> "idle", DRY_RUN |-> "", WAIT_FOR_COMPLETION |-> "", payload |-> "",
     i |-> 0, posts |-> 0, polls |-> 0, finals |-> 0, sleeps |-> 0,
     slept |-> 0, phase |-> "", terminal |-> FALSE, curlFailed |-> {},
     printed |-> {}, exit |-> -1]

\* The two invocations that run at the same time, before they start.  The
\* fields of an invocation:
\*   pc        where the script is: "idle", "fetch" (about to run curl),
\*             "open" (about to open $CACHE_FILE for writing), "write" (the
\*             file is open, echo is writing), "done"
\*   hit       the script read its response from the cache
\*   RESPONSE  $RESPONSE
\*   left      what echo has still to write
\*   offset    the file offset of the open file
\*   order     the rank of this invocation's open among the opens (0: none)
\*   overlap   the other invocation had the file open when this one opened it
\*   exit      the exit status (-1 while the script runs)
WritersIdle ==
    [p \in {1, 2} |->
       [pc |-> "idle", hit |-> FALSE, RESPONSE |-> "", left |-> "",
        offset |-> 0, order |-> 0, overlap |-> FALSE, exit |-> -1]]

\* The templates directory before any template is saved:
\*   files     the .opal files: name |-> [mtime, content]
\*   indexed   index.json exists
\*   index     the entries of index.json, in order
\*   reset     index.json was reset by cleanup-templates and no template was
\*             saved since
\*   rebuilt   a template was saved after the latest reset of index.json
NoTemplates ==
    [files |-> << >>, indexed |-> FALSE, index |-> << >>, reset |-> FALSE,
     rebuilt |-> FALSE]

Init ==
    /\ now = 25
    /\ cache = << >>
    /\ last = NoObs
    /\ ncalls = 0
    /\ caller \in Tools
    /\ sync = SyncIdle
    /\ writers = WritersIdle
    /\ templates = NoTemplates

\* Time passes between invocations (until the last invocation explored); the
\* observation of the invocation that ended is gone.
Tick ==
    /\ ncalls < MaxCalls
    /\ \E t \in ClockReadings : t > now /\ now' = t
    /\ last' = NoObs
    /\ UNCHANGED <<cache, ncalls, caller, sync, writers, templates>>

\* One invocation of argocd_list_applications, argocd_get_application,
\* argocd_list_clusters or argocd_list_repositories.
ReadTool ==
    /\ ncalls < MaxCalls
    /\ \E tool \in {caller}, env \in Envs :
         \E a \in ArgSpace(tool) :
           \E pf \in PrimaryResults(tool, env, a, cache, now) :
             \E rf \in ResourceResults(tool, env, a, cache, now, pf) :
               \E wr \in StoreResults(pf, rf) :
                 LET r == RunRead(tool, env, a, cache, now, pf, rf, wr)
                 IN  /\ cache' = r.cache
                     /\ last' = r.obs
    /\ ncalls' = ncalls + 1
    /\ UNCHANGED <<now, caller, sync, writers, templates>>

Next == Tick \/ ReadTool

Spec == Init /\ [][Next]_vars

----------------------------------------------------------------------------
(* Key derivation: pairs of invocations over a wider range of arguments *)

\* The argument sets the key derivation is explored with: arguments unset,
\* empty, at their default and at other values, and filter values with and
\* without the "_" that joins the parts of the key string.
KeyArgSpace(tool) ==
    CASE tool = "apps" ->
           {NoArgs,
            [NoArgs EXCEPT !.limit = Val("")],
            [NoArgs EXCEPT !.limit = Val("50")],
            [NoArgs EXCEPT !.limit = Val("10")],
            [NoArgs EXCEPT !.offset = Val("0")],
            [NoArgs EXCEPT !.offset = Val("50")],
            [NoArgs EXCEPT !.project_filter = Val("")],
            [NoArgs EXCEPT !.project_filter = Val("prod")],
            [NoArgs EXCEPT !.health_filter = Val("Healthy")],
            [NoArgs EXCEPT !.sync_filter = Val("Synced")],
            [NoArgs EXCEPT !.sync_filter = Val("")],
            [NoArgs EXCEPT !.project_filter = Val("team_a"),
                           !.health_filter = Val("Healthy")],
            [NoArgs EXCEPT !.project_filter = Val("team"),
                           !.health_filter = Val("a_Healthy")]}
      [] tool = "app" ->
           {[NoArgs EXCEPT !.app_name = n, !.include_resources = i] :
              n \in {Val("web"), Val("api")}, i \in {Unset, Val("false")}}
      [] tool = "clusters" -> {NoArgs}
      [] tool = "repos" ->
           {[NoArgs EXCEPT !.repo_type = y] :
              y \in {Unset, Val(""), Val("all"), Val("helm")}}

\* The vendor answers every request of these invocations.
KeyFetchResults == {[rc |-> 0, body |-> "r1\n"], [rc |-> 0, body |-> "r2\n"]}

\* Time passes between two invocations; the observation of the earlier one
\* is kept, to be compared with the later one.
KeyTick ==
    /\ ncalls < KeyCalls
    /\ \E t \in ClockReadings : t > now /\ now' = t
    /\ UNCHANGED <<cache, last, ncalls, caller, sync, writers, templates>>

\* One invocation of a read tool, with valid environment, no refresh, a
\* vendor that answers and a writable cache directory.
KeyRead ==
    /\ ncalls < KeyCalls
    /\ \E a \in KeyArgSpace(caller), pf \in KeyFetchResults :
         LET r == RunRead(caller, GoodEnv, a, cache, now, pf,
                          [rc |-> 0, body |-> "t1\n"], "ok")
         IN  /\ cache' = r.cache
             /\ last' = r.obs
    /\ ncalls' = ncalls + 1
    /\ UNCHANGED <<now, caller, sync, writers, templates>>

KeyNext == KeyTick \/ KeyRead

KeySpec == Init /\ [][KeyNext]_vars

----------------------------------------------------------------------------
(* argocd_sync_application *)

\* for i in $(seq 1 60)
PollAttempts == 60

\* sleep 5
PollSleepSeconds == 5

UpperCase == "ABCDEFGHIJKLMNOPQRSTUVWXYZ"

LowerCase == "abcdefghijklmnopqrstuvwxyz"

\* tr '[:upper:]' '[:lower:]'
RECURSIVE Lower(_)
Lower(s) ==
    IF s = "" THEN ""
    ELSE LET c == SubSeq(s, 1, 1)
             up == {k \in 1..Len(UpperCase) : SubSeq(UpperCase, k, k) = c}
         IN  (IF up = {} THEN c
              ELSE LET k == CHOOSE k \in up : TRUE
                   IN  SubSeq(LowerCase, k, k))
             \o Lower(SubSeq(s, 2, Len(s)))

\* The arguments of argocd_sync_application.
NoSyncArgs ==
    [app_name |-> Unset, dry_run |-> Unset, prune |-> Unset, force |-> Unset,
     resources |-> Unset, wait |-> Unset]

\* [ -z "$ARGOCD_TOKEN" ] || [ -z "$ARGOCD_SERVER" ] || [ -z "$app_name" ]
SyncValidate(env, a) ==
    /\ env.ARGOCD_TOKEN /= ""
    /\ env.ARGOCD_SERVER /= ""
    /\ Expand(a.app_name) /= ""

\* DRY_RUN=${dry_run:-"false"}
DRY_RUN(a) == Default(a.dry_run, "false")

\* PRUNE=${prune:-"false"}
PRUNE(a) == Default(a.prune, "false")

\* FORCE=${force:-"false"}
FORCE(a) == Default(a.force, "false")

\* WAIT_FOR_COMPLETION=${wait:-"true"}
WAIT_FOR_COMPLETION(a) == Default(a.wait, "true")

\* --argjson name "$(echo $X | tr '[:upper:]' '[:lower:]')": the JSON value
\* handed to jq.
ArgJson(x) == CmdSubst(Lower(Echo(x)))

\* The dryRun value of $SYNC_PAYLOAD; jq builds no payload when one of its
\* --argjson values is not JSON.
PayloadDryRun(a) ==
    IF \A x \in {DRY_RUN(a), PRUNE(a), FORCE(a)} : ArgJson(x) \in {"true", "false"}
    THEN ArgJson(DRY_RUN(a))
    ELSE ""

\* What the vendor can answer to the sync request: an application (with
\* .metadata), a JSON document without .metadata, or a failed request.
SyncPostResults ==
    {[rc |-> 0, metadata |-> TRUE], [rc |-> 0, metadata |-> FALSE],
     [rc |-> 22, metadata |-> FALSE]}

\* What the vendor can answer to an operation-status fetch: a failed request,
\* an empty body, or a document whose .operation.sync.phase is as given
\* ("" when the document has none).
OpResults ==
    {[rc |-> 22, body |-> "", phase |-> ""],
     [rc |-> 0, body |-> "", phase |-> ""],
     [rc |-> 0, body |-> "{}", phase |-> ""],
     [rc |-> 0, body |-> "{}", phase |-> "Running"],
     [rc |-> 0, body |-> "{}", phase |-> "Succeeded"],
     [rc |-> 0, body |-> "{}", phase |-> "Failed"],
     [rc |-> 0, body |-> "{}", phase |-> "Error"]}

\* What the vendor can answer to the final application-status fetch.
FinalResults == {[rc |-> 0, body |-> "{}"], [rc |-> 0, body |-> ""],
                 [rc |-> 22, body |-> ""]}

\* PHASE=$(echo "$OP_STATUS" | jq -r '.operation.sync.phase // "unknown"')
PHASE(op) == IF op.phase = "" THEN "unknown" ELSE op.phase

\* The phases that end the poll loop.
TerminalPhases == {"Succeeded", "Failed", "Error"}

\* A poll loop that goes on polling after Succeeded.
PollOutcomeWithoutBreak(op) ==
    IF op.rc /= 0 \/ op.body = "" THEN "no-operation"
    ELSE IF PHASE(op) \in {"Failed", "Error"} THEN "failed"
    ELSE "continue"

\* The body of the poll loop after the fetch: break on a failed or empty
\* fetch, break on Succeeded, exit 1 on Failed or Error, else go on.
PollOutcome(op) ==
    IF op.rc /= 0 \/ op.body = "" THEN "no-operation"
    ELSE IF PHASE(op) = "Succeeded" THEN "succeeded"
    ELSE IF PHASE(op) \in {"Failed", "Error"} THEN "failed"
    ELSE "continue"

SyncEnded(s, code, msgs) ==
    [s EXCEPT !.pc = "done", !.exit = code, !.printed = @ \cup msgs]

\* The script from its start to the first sleep of the poll loop, to the
\* final status fetch, or to its exit.
SyncStart ==
    /\ sync.pc = "idle"
    /\ \E env \in Envs,
          n \in {Unset, Val("web")},
          d \in {Unset, Val("true"), Val("True"), Val("false")},
          p \in {Unset, Val("true")},
          w \in {Unset, Val("true"), Val("false")} :
         LET a == [NoSyncArgs EXCEPT !.app_name = n, !.dry_run = d,
                                     !.prune = p, !.wait = w]
             s0 == [sync EXCEPT !.DRY_RUN = DRY_RUN(a),
                                !.WAIT_FOR_COMPLETION = WAIT_FOR_COMPLETION(a),
                                !.payload = PayloadDryRun(a)]
         IN  IF ~SyncValidate(env, a)
             THEN sync' = SyncEnded(sync, 1, {"missing-parameters"})
             ELSE \E post \in SyncPostResults :
                    LET s1 == [s0 EXCEPT
                                 !.posts = 1,
                                 !.curlFailed = IF post.rc /= 0 THEN {"sync"}
                                                ELSE {}]
                    IN  sync' =
                          IF post.rc /= 0
                          THEN SyncEnded(s1, 1, {"sync-request-failed"})
                          ELSE IF ~post.metadata
                          THEN SyncEnded(s1, 1, {"unexpected-response"})
                          ELSE IF s1.DRY_RUN = "true"
                          THEN SyncEnded(s1, 0, {"initiated", "dry-run-results"})
                          ELSE IF s1.WAIT_FOR_COMPLETION = "true"
                          THEN [s1 EXCEPT !.pc = "sleep", !.i = 1,
                                          !.printed = {"initiated", "waiting"}]
                          ELSE [s1 EXCEPT !.pc = "final",
                                          !.printed = {"initiated"}]
    /\ UNCHANGED <<now, cache, last, ncalls, caller, writers, templates>>

\* sleep 5
PollSleep ==
    /\ sync.pc = "sleep"
    /\ sync' = [sync EXCEPT !.pc = "fetch", !.sleeps = @ + 1,
                            !.slept = @ + PollSleepSeconds]
    /\ UNCHANGED <<now, cache, last, ncalls, caller, writers, templates>>

\* The operation-status fetch of one iteration and what the loop does with it.
PollFetch ==
    /\ sync.pc = "fetch"
    /\ \E op \in OpResults :
         LET s1 == [sync EXCEPT
                      !.polls = @ + 1,
                      !.curlFailed = IF op.rc /= 0 THEN @ \cup {"operation"}
                                     ELSE @,
                      !.phase = IF op.rc /= 0 \/ op.body = "" THEN @
                                ELSE PHASE(op),
                      !.terminal = @ \/ (op.rc = 0 /\ op.body /= ""
                                         /\ PHASE(op) \in TerminalPhases)]
             out == PollOutcome(op)
         IN  sync' =
               CASE out = "no-operation" ->
                      [s1 EXCEPT !.pc = "final",
                                 !.printed = @ \cup {"completed-no-operation"}]
                 [] out = "succeeded" ->
                      [s1 EXCEPT !.pc = "final",
                                 !.printed = @ \cup {"status", "completed"}]
                 [] out = "failed" ->
                      SyncEnded(s1, 1, {"status", "sync-failed"})
                 [] OTHER ->
                      IF sync.i < PollAttempts
                      THEN [s1 EXCEPT !.pc = "sleep", !.i = @ + 1,
                                      !.printed = @ \cup {"status"}]
                      ELSE [s1 EXCEPT !.pc = "final",
                                      !.printed = @ \cup {"status"}]
    /\ UNCHANGED <<now, cache, last, ncalls, caller, writers, templates>>

\* The final application-status fetch; the script ends after it.
FinalStatus ==
    /\ sync.pc = "final"
    /\ \E fr \in FinalResults :
         sync' = SyncEnded([sync EXCEPT
                              !.finals = @ + 1,
                              !.curlFailed = IF fr.rc /= 0 THEN @ \cup {"final"}
                                             ELSE @], 0,
                           IF fr.rc = 0 /\ fr.body /= ""
                           THEN {"final-header", "final-status"}
                           ELSE {"final-header"})
    /\ UNCHANGED <<now, cache, last, ncalls, caller, writers, templates>>

SyncNext == SyncStart \/ PollSleep \/ PollFetch \/ FinalStatus

\* Every step of the script ends: curl runs with --max-time, sleep and jq
\* end by themselves.
SyncSpec == Init /\ [][SyncNext]_vars /\ WF_vars(SyncNext)

----------------------------------------------------------------------------
(* One invocation of any ArgoCD tool that talks to the vendor *)

\* One invocation of a read tool on the empty cache.
OneRead == ncalls = 0 /\ sync.pc = "idle" /\ ReadTool

\* The steps of one invocation of argocd_sync_application.
OneSync == ncalls = 0 /\ SyncNext

OneNext == OneRead \/ OneSync

OneSpec == Init /\ [][OneNext]_vars

----------------------------------------------------------------------------
(* The credentialed tools: each script up to its first vendor request *)

CredTools ==
    {"argocd_list_applications", "argocd_get_application",
     "argocd_list_clusters", "argocd_list_repositories",
     "argocd_sync_application", "argocd_application_history",
     "azure_subscriptions_list", "azure_cli", "bicep_template", "github_cli",
     "datadog_cli_command", "datadog_list_monitors",
     "observe_opal_query", "observe_dataset_analyzer",
     "observe_performance_monitor", "confluence_search"}

ArgoCreds == {"ARGOCD_TOKEN", "ARGOCD_SERVER"}

AzureCreds == {"AZURE_CLIENT_ID", "AZURE_CLIENT_SECRET", "AZURE_TENANT_ID"}

DatadogCreds == {"DD_API_KEY", "DD_APP_KEY", "DD_SITE"}

ObserveCreds == {"OBSERVE_API_KEY", "OBSERVE_CUSTOMER_ID"}

ConfluenceCreds == {"CONFLUENCE_URL", "CONFLUENCE_USERNAME", "CONFLUENCE_API_TOKEN"}

\* if [ -z "$A" ] || [ -z "$B" ]; then echo "..."; exit 1; fi
Require(vs) == [op |-> "require", vars |-> vs, fatal |-> TRUE]

\* The installation of packages (apk add, pip install); fatal when the
\* script ends if it fails, through || { ...; exit 1; }, through set -e, or
\* because the program that follows cannot start.
Install(fatal) == [op |-> "install", vars |-> {}, fatal |-> fatal]

\* A request to the vendor: curl to its API, or its command line client.
Vendor == [op |-> "vendor", vars |-> {}, fatal |-> TRUE]

\* The stages of each script, in the order of its text, up to its first
\* request to the vendor.
ArgoScript(tool) ==
    IF tool \in {"argocd_list_applications", "argocd_list_clusters",
                 "argocd_list_repositories"}
    THEN <<Install(FALSE), Require(ArgoCreds), Vendor>>
    ELSE <<Install(FALSE), Require(ArgoCreds \cup {"app_name"}), Vendor>>

AzureScript(tool) ==
    IF tool = "azure_subscriptions_list"
    THEN <<Require({"AZURE_CLIENT_ID"}), Require({"AZURE_CLIENT_SECRET"}),
           Require({"AZURE_TENANT_ID"}), Install(TRUE), Vendor>>
    ELSE <<Require({"AZURE_CLIENT_ID"}), Require({"AZURE_CLIENT_SECRET"}),
           Require({"AZURE_TENANT_ID"}), Require({"command"}),
           Install(TRUE), Vendor>>

BicepScript == <<Require(AzureCreds), Require({"template"}), Vendor>>

GithubScript ==
    <<Require({"GH_TOKEN"}), Require({"command"}), Install(TRUE), Vendor>>

\* The checks every Datadog tool starts with.
DatadogSetup ==
    <<Require({"/root/.dogrc"}), Require({"DD_API_KEY"}),
      Require({"DD_APP_KEY"}), Require({"DD_SITE"})>>

DatadogScript(tool) ==
    IF tool = "datadog_cli_command"
    THEN DatadogSetup \o <<Install(TRUE), Require({"command"}), Vendor>>
    ELSE DatadogSetup \o <<Install(TRUE), Vendor>>

ObserveScript(tool) ==
    CASE tool = "observe_opal_query" ->
           <<Require(ObserveCreds \cup {"DATASET_IDS"}), Install(TRUE), Vendor>>
      [] tool = "observe_dataset_analyzer" ->
           <<Install(FALSE), Require(ObserveCreds \cup {"dataset_id"}), Vendor>>
      [] tool = "observe_performance_monitor" ->
           <<Install(FALSE), Require(ObserveCreds), Vendor>>

ConfluenceScript ==
    <<Install(TRUE), Require({"CONFLUENCE_URL"}),
      Require({"CONFLUENCE_USERNAME"}), Require({"CONFLUENCE_API_TOKEN"}),
      Require({"query"}), Vendor>>

Script(tool) ==
    CASE tool \in {"argocd_list_applications", "argocd_get_application",
                   "argocd_list_clusters", "argocd_list_repositories",
                   "argocd_sync_application", "argocd_application_history"} ->
           ArgoScript(tool)
      [] tool \in {"azure_subscriptions_list", "azure_cli"} -> AzureScript(tool)
      [] tool = "bicep_template" -> BicepScript
      [] tool = "github_cli" -> GithubScript
      [] tool \in {"datadog_cli_command", "datadog_list_monitors"} ->
           DatadogScript(tool)
      [] tool \in {"observe_opal_query", "observe_dataset_analyzer",
                   "observe_performance_monitor"} -> ObserveScript(tool)
      [] tool = "confluence_search" -> ConfluenceScript

\* A test that never finds a variable empty.
MissingNever(st, env) == FALSE

\* [ -z "$V" ] for one of the variables of the stage.
Missing(st, env) == \E v \in st.vars : env[v] = ""

\* The variables a script tests.
RECURSIVE Tested(_)
Tested(stages) ==
    IF stages = <<>> THEN {} ELSE Head(stages).vars \cup Tested(Tail(stages))

\* The run of a script before it starts.
NoRun(tool, env) ==
    [tool |-> tool, env |-> env, installed |-> TRUE, requests |-> 0,
     error |-> "", exit |-> 0]

\* The stages run in order on environment env; inst tells whether package
\* installation succeeds, vend is the exit status of the vendor request.
RECURSIVE RunStages(_, _, _, _, _)
RunStages(stages, env, inst, vend, run) ==
    IF stages = <<>> THEN run
    ELSE LET st == Head(stages)
             rest == Tail(stages)
         IN  CASE st.op = "require" ->
                    IF Missing(st, env)
                    THEN [run EXCEPT !.error = "missing", !.exit = 1]
                    ELSE RunStages(rest, env, inst, vend, run)
               [] st.op = "install" ->
                    IF ~inst /\ st.fatal
                    THEN [run EXCEPT !.installed = FALSE,
                                     !.error = "install-failed", !.exit = 1]
                    ELSE RunStages(rest, env, inst, vend,
                                   [run EXCEPT !.installed = inst])
               [] st.op = "vendor" ->
                    IF ~run.installed
                    THEN [run EXCEPT !.error = "request-failed", !.exit = 1]
                    ELSE IF vend /= 0
                    THEN [run EXCEPT !.requests = @ + 1,
                                     !.error = "request-failed", !.exit = vend]
                    ELSE RunStages(rest, env, inst, vend,
                                   [run EXCEPT !.requests = @ + 1])

RunScript(tool, env, inst, vend) ==
    RunStages(Script(tool), env, inst, vend, NoRun(tool, env))

\* One invocation of a credentialed tool, each variable its script tests
\* being empty or set.
CredTool ==
    /\ \E tool \in CredTools :
         \E env \in [Tested(Script(tool)) -> {"", "v"}] :
           \E inst \in BOOLEAN, vend \in {0, 1} :
             last' = RunScript(tool, env, inst, vend)
    /\ UNCHANGED <<now, cache, ncalls, caller, sync, writers, templates>>

ConfigSpec == Init /\ [][CredTool]_vars

----------------------------------------------------------------------------
(* The Observe tools: the loop over the two regions *)

ObserveTools ==
    {"observe_opal_query", "observe_dataset_analyzer",
     "observe_performance_monitor"}

\* for REGION in "us-1" "eu-1"
Regions == <<"us-1", "eu-1">>

\* The scripts that run under set -e.
Errexit(tool) == tool = "observe_opal_query"

\* The exit statuses of a failed request: those of curl (6, 7, 22, 28) and,
\* where the request runs under timeout 10, 124.
CurlStatuses(tool) ==
    IF tool = "observe_opal_query" THEN {6, 7, 22, 28, 124} ELSE {6, 7, 22, 28}

\* What a completed request prints.
Bodies == {"", "text", "{broken", "{error}", "{data}"}

\* The replies of one region: a failed request, or a completed one.
RegionReplies(tool) ==
    {[rc |-> c, body |-> ""] : c \in CurlStatuses(tool)}
        \cup {[rc |-> 0, body |-> b] : b \in Bodies}

\* sed -n '/^{/,$p': the response from its first line that starts with {.
JsonPart(body) == IF body = "text" THEN "" ELSE body

\* jq empty
ValidJson(body) == body \in {"{error}", "{data}"}

\* jq -r '.error // empty'
ERROR_CHECK(body) == IF body = "{error}" THEN "error" ELSE ""

\* One pass of the loop body on the reply of a region: the script ends
\* ("exit"), goes to the next region ("continue") or leaves the loop with
\* this region ("break").
TryRegion(tool, reply) ==
    IF reply.rc /= 0 THEN (IF Errexit(tool) THEN "exit" ELSE "continue")
    ELSE IF reply.body = ""
         THEN (IF tool = "observe_opal_query" THEN "break" ELSE "continue")
    ELSE IF tool = "observe_opal_query" /\ JsonPart(reply.body) = ""
         THEN "continue"
    ELSE IF ~ValidJson(reply.body) THEN "continue"
    ELSE IF ERROR_CHECK(reply.body) /= "" THEN "continue"
    ELSE "break"

\* The run of the loop before its first pass.
NoRegionRun(tool, replies) ==
    [tool |-> tool, replies |-> replies, attempted |-> <<>>,
     REGION_USED |-> "", printed |-> {}, exit |-> 0]

\* The loop from its pass number i on; after the loop, an empty REGION_USED
\* ends the script with status 1. Exit status 0 stands for a script that
\* goes on to process the response.
RECURSIVE RegionLoop(_, _, _, _)
RegionLoop(tool, replies, i, run) ==
    IF i > Len(Regions)
    THEN [run EXCEPT !.printed = @ \cup {"failed-both-regions"}, !.exit = 1]
    ELSE LET tried == [run EXCEPT !.attempted = Append(@, Regions[i])]
             how == TryRegion(tool, replies[i])
         IN  CASE how = "exit" -> [tried EXCEPT !.exit = replies[i].rc]
               [] how = "break" ->
                    [tried EXCEPT !.REGION_USED = Regions[i],
                                  !.printed = @ \cup {"using-region"}]
               [] how = "continue" ->
                    RegionLoop(tool, replies, i + 1,
                               [tried EXCEPT !.printed =
                                   @ \cup {IF replies[i].rc /= 0
                                           THEN "curl-failed"
                                           ELSE "bad-response"}])

\* One invocation of an Observe tool with valid configuration, the two
\* regions replying in any way.
ObserveTool ==
    /\ \E tool \in ObserveTools :
         \E us, eu \in RegionReplies(tool) :
           last' = RegionLoop(tool, <<us, eu>>, 1, NoRegionRun(tool, <<us, eu>>))
    /\ UNCHANGED <<now, cache, ncalls, caller, sync, writers, templates>>

RegionSpec == Init /\ [][ObserveTool]_vars

----------------------------------------------------------------------------
(* The Datadog tools: the dog command under timeout 180 *)

DatadogTools == {"datadog_cli_command", "datadog_list_monitors"}

\* Whether errexit is on when the dog command runs: both scripts start with
\* set -e, and datadog_cli_command alone has set +e before the command.
DatadogErrexit(tool) == tool = "datadog_list_monitors"

\* The exit statuses of timeout 180 $CMD: that of dog, 124 when the time ran
\* out, 137 when dog was killed.
DogStatuses == {0, 1, 2, 3, 124, 137}

\* The commands given to datadog_cli_command.
DogCommands == {"monitor show_all", "monitor show 1", "host list"}

\* The filters of datadog_list_monitors, each empty or given.
MonitorFilters ==
    [group_states : {"", "alert"}, name_filter : {"", "api"},
     tags : {"", "env:prod"}, monitor_tags : {"", "team:be"}]

\* if [ -n "$v" ]; then CMD="$CMD <option> <v>"; fi
WithOption(cmd, option, v, quote) ==
    IF v = "" THEN cmd ELSE cmd \o " " \o option \o " " \o quote \o v \o quote

\* The arguments of dog after its connection options.
CMD(tool, command, f) ==
    IF tool = "datadog_cli_command" THEN command
    ELSE WithOption(WithOption(WithOption(WithOption("monitor show_all",
             "--group_states", f.group_states, ""),
             "--name", f.name_filter, "'"),
             "--tags", f.tags, "'"),
             "--monitor_tags", f.monitor_tags, "'")

\* [[ "$command" == *"monitor show_all"* ]]
ShowsAll(command) == command = "monitor show_all"

\* The script from the dog command on: under errexit a non-zero status ends
\* it at once with that status; otherwise exit_code is read and handled.
DogResult(tool, command, f, status) ==
    LET run == [tool |-> tool, CMD |-> CMD(tool, command, f),
                status |-> status, printed |-> {}, exit |-> 0]
    IN  IF DatadogErrexit(tool) /\ status /= 0
        THEN [run EXCEPT !.exit = status]
        ELSE IF status = 124
        THEN [run EXCEPT !.exit = 1,
                  !.printed = {"timed-out"} \cup
                      (IF tool = "datadog_cli_command" /\ ShowsAll(command)
                       THEN {"filter-hint"} ELSE {})]
        ELSE IF status = 0
        THEN [run EXCEPT !.printed = {"success"}]
        ELSE [run EXCEPT !.exit = status,
                  !.printed = {"failed"} \cup
                      (IF tool = "datadog_cli_command" /\ ShowsAll(command)
                       THEN {"filter-hint"} ELSE {})]

\* One invocation of datadog_cli_command, configuration and command given.
DatadogCommand ==
    /\ \E command \in DogCommands, status \in DogStatuses :
         last' = DogResult("datadog_cli_command", command,
                           CHOOSE f \in MonitorFilters :
                               \A k \in DOMAIN f : f[k] = "",
                           status)
    /\ UNCHANGED <<now, cache, ncalls, caller, sync, writers, templates>>

\* One invocation of datadog_list_monitors, configuration given.
DatadogListMonitors ==
    /\ \E f \in MonitorFilters, status \in DogStatuses :
         last' = DogResult("datadog_list_monitors", "", f, status)
    /\ UNCHANGED <<now, cache, ncalls, caller, sync, writers, templates>>

DatadogNext == DatadogCommand \/ DatadogListMonitors

DatadogSpec == Init /\ [][DatadogNext]_vars

----------------------------------------------------------------------------
(* argocd_application_history *)

NoHistoryArgs ==
    [app_name |-> Unset, action |-> Unset, revision |-> Unset,
     output_format |-> Unset]

\* if [ -z "$ARGOCD_TOKEN" ] || [ -z "$ARGOCD_SERVER" ] || [ -z "$app_name" ]
HistoryValidate(env, a) ==
    env.ARGOCD_TOKEN /= "" /\ env.ARGOCD_SERVER /= "" /\ Expand(a.app_name) /= ""

\* ACTION=${action:-"history"}
HistoryAction(a) == Default(a.action, "history")

\* OUTPUT_FORMAT=${output_format:-"table"}
OUTPUT_FORMAT(a) == Default(a.output_format, "table")

\* A test that finds a revision in every call.
RevisionMissingNever(a) == FALSE

\* if [ -z "$revision" ]
RevisionMissing(a) == Expand(a.revision) = ""

\* The script of argocd_application_history on cache directory c; hf and rb
\* are the exit statuses the revisions request and the rollback request
\* would have.  The script has no command that names the cache directory.
RunHistory(env, a, c, hf, rb) ==
    LET base == [tool |-> "argocd_application_history", args |-> a,
                 action |-> HistoryAction(a), requests |-> <<>>,
                 error |-> "", printed |-> {}, exit |-> 0]
        fetched == [base EXCEPT !.requests = <<"revisions">>]
    IN  IF ~HistoryValidate(env, a)
        THEN [cache |-> c,
              obs |-> [base EXCEPT !.error = "missing-parameters", !.exit = 1]]
        ELSE IF FetchFailed(hf)
        THEN [cache |-> c,
              obs |-> [fetched EXCEPT !.error = "request-failed", !.exit = 1]]
        ELSE IF HistoryAction(a) \in {"history", "list"}
        THEN [cache |-> c,
              obs |-> [fetched EXCEPT !.printed =
                          IF OUTPUT_FORMAT(a) \in {"table", "json", "summary"}
                          THEN {"history"} ELSE {}]]
        ELSE IF HistoryAction(a) = "rollback"
        THEN IF RevisionMissing(a)
             THEN [cache |-> c,
                   obs |-> [fetched EXCEPT !.error = "revision-required",
                                           !.exit = 1]]
             ELSE IF FetchFailed(rb)
             THEN [cache |-> c,
                   obs |-> [fetched EXCEPT
                              !.requests = <<"revisions", "rollback">>,
                              !.error = "rollback-failed", !.exit = 1]]
             ELSE [cache |-> c,
                   obs |-> [fetched EXCEPT
                              !.requests = <<"revisions", "rollback">>,
                              !.printed = {"rollback-initiated"}]]
        ELSE [cache |-> c,
              obs |-> [fetched EXCEPT !.error = "unknown-action", !.exit = 1]]

\* One invocation of argocd_application_history.
HistoryTool ==
    /\ \E env \in Envs,
          n \in {Unset, Val("web")},
          act \in {Unset, Val(""), Val("history"), Val("list"),
                   Val("rollback"), Val("prune")},
          rev \in {Unset, Val(""), Val("abc123")},
          fmt \in {Unset, Val("json"), Val("xml")},
          hf \in {0, 22}, rb \in {0, 22} :
         LET a == [NoHistoryArgs EXCEPT !.app_name = n, !.action = act,
                                        !.revision = rev,
                                        !.output_format = fmt]
         IN  last' = RunHistory(env, a, cache, hf, rb).obs
    /\ UNCHANGED <<now, cache, ncalls, caller, sync, writers, templates>>

HistorySpec == Init /\ [][HistoryTool]_vars

----------------------------------------------------------------------------
(* argocd_workspace_manager *)

SecondsPerMinute == 60

\* The N of find ... -mmin +N in the cleanup action
CleanupMinutes == 1440

\* The N of find ... -mmin -N in the status action
RecentMinutes == 60

\* The N of find ... -mmin -N in the list-cache action
ListRecentMinutes == 240

\* Whether string s ends with suffix x.
HasSuffix(s, x) ==
    Len(s) >= Len(x) /\ SubSeq(s, Len(s) - Len(x) + 1, Len(s)) = x

\* Whether string s starts with prefix x.
HasPrefix(s, x) == Len(s) >= Len(x) /\ SubSeq(s, 1, Len(x)) = x

CacheDir == "/workspace/argocd-data/cache/"

\* find /workspace/argocd-data/cache -name "<prefix>*.json" -type f
FindJson(c, prefix) ==
    {f \in DOMAIN c : /\ HasPrefix(f, CacheDir \o prefix)
                      /\ HasSuffix(f, ".json")}

\* The age of file f in seconds, at secs seconds past minute t; files carry
\* the minute they were written in.
AgeSeconds(c, f, t, secs) == (t - c[f].mtime) * SecondsPerMinute + secs

\* find -mmin +N of the alpine image (busybox): the age of the file is at
\* least N minutes and one more minute.
OlderThan(c, f, n, t, secs) ==
    AgeSeconds(c, f, t, secs) >= n * SecondsPerMinute + SecondsPerMinute

\* find -mmin -N of the alpine image (busybox): the age is below N minutes.
YoungerThan(c, f, n, t, secs) ==
    AgeSeconds(c, f, t, secs) < n * SecondsPerMinute

\* ACTION=${action:-"status"}
ManagerAction(a) == Default(a, "status")

\* A manager whose status action deletes what it counts.
ManagerDeletesOnStatus(c, action, t, secs) ==
    CASE action \in {"cleanup", "status"} ->
           {f \in FindJson(c, "") : OlderThan(c, f, CleanupMinutes, t, secs)}
      [] action = "clear-cache" -> FindJson(c, "")
      [] OTHER -> {}

\* The files the find ... -delete of the action removes.
ManagerDeletes(c, action, t, secs) ==
    CASE action = "cleanup" ->
           {f \in FindJson(c, "") : OlderThan(c, f, CleanupMinutes, t, secs)}
      [] action = "clear-cache" -> FindJson(c, "")
      [] OTHER -> {}

\* The script of argocd_workspace_manager at secs seconds past minute t on
\* cache directory c, with argument action a.  counts are the numbers it
\* prints, by name.
RunManager(a, c, t, secs) ==
    LET action == ManagerAction(a)
        gone == ManagerDeletes(c, action, t, secs)
        c1 == [f \in DOMAIN c \ gone |-> c[f]]
        counts ==
            CASE action \in {"status", "info"} ->
                   [CACHE_COUNT |-> Cardinality(FindJson(c1, "")),
                    recent |-> Cardinality(
                        {f \in FindJson(c1, "") :
                           YoungerThan(c1, f, RecentMinutes, t, secs)})]
              [] action = "list-cache" ->
                   [listed |-> Cardinality(FindJson(c1, "")),
                    recent |-> Cardinality(
                        {f \in FindJson(c1, "") :
                           YoungerThan(c1, f, ListRecentMinutes, t, secs)})]
              [] action = "cleanup" ->
                   [CACHE_CLEANED |-> Cardinality(gone),
                    REMAINING_CACHE |-> Cardinality(FindJson(c1, ""))]
              [] action = "clear-cache" ->
                   [CACHE_CLEARED |-> Cardinality(gone)]
              [] action = "stats" ->
                   [APP_CACHE |-> Cardinality(FindJson(c1, "apps_")),
                    CLUSTER_CACHE |-> Cardinality(FindJson(c1, "clusters_")),
                    REPO_CACHE |-> Cardinality(FindJson(c1, "repos_")),
                    INDIVIDUAL_APP_CACHE |-> Cardinality(FindJson(c1, "app_"))]
              [] OTHER -> [unknown |-> 1]
    IN  [cache |-> c1,
         obs |-> [tool |-> "argocd_workspace_manager", action |-> action,
                  time |-> t, secs |-> secs, before |-> c,
                  deleted |-> gone, counts |-> counts,
                  error |-> IF action \in {"status", "info", "list-cache",
                                           "cleanup", "clear-cache", "stats"}
                            THEN "" ELSE "unknown-action",
                  exit |-> 0]]

----------------------------------------------------------------------------
(* The life of the cache directory under all the ArgoCD tools *)

LifeCalls == 3      \* tool invocations per behaviour
LifePolls == 1      \* operation-status fetches of a sync per behaviour

\* The clock readings of the cache life: a quarter of an hour after the
\* first invocation, then 24 hours and 24 hours 1 minute after it.
LifeClock == {40, 1465, 1466}

\* The seconds past the minute at which the workspace manager runs.
LifeSeconds == {0, 30}

\* No invocation of argocd_sync_application is under way.
SyncAtRest == sync.pc \in {"idle", "done"}

\* Time passes between invocations; the observation of the invocation
\* that ended is gone.
LifeTick ==
    /\ SyncAtRest
    /\ \E t \in LifeClock : t > now /\ now' = t
    /\ last' = NoObs
    /\ UNCHANGED <<cache, ncalls, caller, sync, writers, templates>>

\* One invocation of a read tool with its configuration in place.
LifeRead ==
    /\ SyncAtRest
    /\ ncalls < LifeCalls
    /\ \E a \in {NoArgs, [NoArgs EXCEPT !.refresh = Val("true")],
                  [NoArgs EXCEPT !.app_name = Val("web")]} :
         \E pf \in PrimaryResults(caller, GoodEnv, a, cache, now) :
           \E rf \in ResourceResults(caller, GoodEnv, a, cache, now, pf) :
             LET r == RunRead(caller, GoodEnv, a, cache, now, pf, rf, "ok")
             IN  /\ cache' = r.cache
                 /\ last' = r.obs
    /\ ncalls' = ncalls + 1
    /\ UNCHANGED <<now, caller, sync, writers, templates>>

\* One invocation of argocd_application_history.
LifeHistory ==
    /\ SyncAtRest
    /\ ncalls < LifeCalls
    /\ \E env \in {GoodEnv},
          n \in {Unset, Val("web")},
          act \in {Unset, Val("rollback"), Val("prune")},
          rev \in {Unset, Val("abc123")},
          hf \in {0, 22}, rb \in {0, 22} :
         LET a == [NoHistoryArgs EXCEPT !.app_name = n, !.action = act,
                                        !.revision = rev]
             r == RunHistory(env, a, cache, hf, rb)
         IN  /\ cache' = r.cache
             /\ last' = r.obs
    /\ ncalls' = ncalls + 1
    /\ UNCHANGED <<now, caller, sync, writers, templates>>

\* One invocation of argocd_workspace_manager.
LifeManager ==
    /\ SyncAtRest
    /\ ncalls < LifeCalls
    /\ \E a \in {Unset, Val("info"), Val("list-cache"), Val("cleanup"),
                  Val("clear-cache"), Val("stats"), Val("purge")},
          secs \in LifeSeconds :
         LET r == RunManager(a, cache, now, secs)
         IN  /\ cache' = r.cache
             /\ last' = r.obs
    /\ ncalls' = ncalls + 1
    /\ UNCHANGED <<now, caller, sync, writers, templates>>

\* The steps of one invocation of argocd_sync_application, invoked some
\* time after the other invocations, the vendor answering at most LifePolls
\* operation-status fetches.
LifeSync ==
    /\ ncalls = LifeCalls
    /\ last = NoObs
    /\ SyncNext
    /\ sync'.polls <= LifePolls

LifeNext == LifeTick \/ LifeRead \/ LifeHistory \/ LifeManager \/ LifeSync

LifeSpec == Init /\ [][LifeNext]_vars

----------------------------------------------------------------------------
(* observe_query_builder and the templates of observe_workspace_manager *)

TplCalls == 3       \* tool invocations per behaviour

\* The N of find ... -mtime +N in cleanup-templates
TemplateDays == 90

\* The clock readings of the templates' life: the minute after the first
\* invocation, and 91 days after the first invocation.
TplClock == {26, 131065}

\* Whether string x occurs in string s: grep -q "x" on one line.
Contains(s, x) ==
    \E k \in 1..(Len(s) - Len(x) + 1) : SubSeq(s, k, k + Len(x) - 1) = x

NoBuilderArgs ==
    [query_type |-> Unset, custom_query |-> Unset, dataset_id |-> Unset,
     time_range |-> Unset, save_template |-> Unset]

\* QUERY_TYPE=${query_type:-"custom"}
QUERY_TYPE(a) == Default(a.query_type, "custom")

\* The templates of the case "$QUERY_TYPE"; "" for the types that have none.
BuiltinTemplate(type) ==
    CASE type = "error_analysis" ->
           "filter level == \"ERROR\" or severity == \"error\" | pick_col TIMESTAMP, message, host, level | top 50 by TIMESTAMP desc"
      [] type = "performance_monitoring" ->
           "filter response_time > 1000 or duration > \"1s\" | pick_col TIMESTAMP, response_time, endpoint, user_id | stats avg(response_time) by endpoint | sort avg_response_time desc"
      [] type = "security_events" ->
           "filter action == \"login\" or event_type == \"authentication\" | pick_col TIMESTAMP, user_id, source_ip, action, result | filter result == \"failed\" | top 100 by TIMESTAMP desc"
      [] type = "resource_usage" ->
           "pick_col TIMESTAMP, cpu_usage, memory_usage, host | filter cpu_usage > 80 or memory_usage > 85 | stats max(cpu_usage), max(memory_usage) by host"
      [] type = "log_aggregation" ->
           "pick_col TIMESTAMP, level, message, service | filter level in (\"WARN\", \"ERROR\", \"FATAL\") | stats count by level, service | sort count desc"
      [] OTHER -> ""

\* if ! echo "$TEMPLATE" | grep -q "limit"
LacksLimit(q) == ~Contains(q, "limit")

\* TEMPLATE="$TEMPLATE | limit 1000" when the test finds no limit.
WithLimit(q) == IF LacksLimit(q) THEN q \o " | limit 1000" ELSE q

\* SAVE_TEMPLATE=${save_template:-"true"}
SAVE_TEMPLATE(a) == Default(a.save_template, "true")

\* date +%Y%m%d_%H%M%S at minute t, the day counted from 2024-06-01
\* instead of written as year, month and day.
DateStamp(t) ==
    ToString(t \div (MinutesPerHour * HoursPerDay)) \o "_"
        \o Pad2((t \div MinutesPerHour) % HoursPerDay)
        \o Pad2(t % MinutesPerHour) \o "00"

\* TEMPLATE_NAME="${query_type:-custom}_$(date +%Y%m%d_%H%M%S).opal"
TEMPLATE_NAME(a, t) == Default(a.query_type, "custom") \o "_" \o DateStamp(t) \o ".opal"

\* index.json after a save: created as [] when it does not exist, then the
\* entry of the saved template is added at the end (jq '. += [...]').
IndexAfterSave(tp, files, entry) ==
    Append(IF tp.indexed THEN tp.index ELSE << >>, entry)

\* The script of observe_query_builder at minute t on templates directory
\* tp with arguments a.
RunBuilder(a, tp, t) ==
    LET type == QUERY_TYPE(a)
        builtin == BuiltinTemplate(type)
        chosen == IF builtin /= "" THEN builtin ELSE Expand(a.custom_query)
        TEMPLATE == WithLimit(chosen)
        name == TEMPLATE_NAME(a, t)
        base == [tool |-> "observe_query_builder", args |-> a, time |-> t,
                 chosen |-> chosen, TEMPLATE |-> "", printed |-> {},
                 saved |-> "", afterReset |-> FALSE, error |-> "", exit |-> 0]
        files == [n \in DOMAIN tp.files \cup {name} |->
                    IF n = name THEN [mtime |-> t, content |-> Echo(TEMPLATE)]
                    ELSE tp.files[n]]
        entry == [name |-> name, type |-> type, query |-> TEMPLATE]
    IN  IF chosen = ""
        THEN [templates |-> tp,
              obs |-> [base EXCEPT !.error = "no-query", !.exit = 1]]
        ELSE IF SAVE_TEMPLATE(a) /= "true"
        THEN [templates |-> tp,
              obs |-> [base EXCEPT
                         !.TEMPLATE = TEMPLATE,
                         !.printed = {"query", "ready"} \cup
                             (IF LacksLimit(chosen) THEN {"limit-added"} ELSE {})]]
        ELSE [templates |->
                  [tp EXCEPT !.files = files, !.indexed = TRUE,
                             !.index = IndexAfterSave(tp, files, entry),
                             !.reset = FALSE,
                             !.rebuilt = tp.reset \/ tp.rebuilt],
              obs |-> [base EXCEPT
                         !.TEMPLATE = TEMPLATE,
                         !.saved = name,
                         !.afterReset = tp.reset,
                         !.printed = {"query", "ready", "saved", "indexed"} \cup
                             (IF LacksLimit(chosen) THEN {"limit-added"} ELSE {})]]

\* find ... -name "*.opal" -type f -mtime +N at minute t: the files whose
\* age in whole days is above N.
OldTemplates(tp, n, t) ==
    {f \in DOMAIN tp.files :
       (t - tp.files[f].mtime) \div (MinutesPerHour * HoursPerDay) > n}

\* The script of observe_workspace_manager at minute t on templates
\* directory tp, for the actions that read or change that directory.
RunObserveManager(a, tp, t) ==
    LET action == Default(a, "status")
        old == OldTemplates(tp, TemplateDays, t)
        base == [tool |-> "observe_workspace_manager", action |-> action,
                 time |-> t, listed |-> {}, count |-> 0, deleted |-> {},
                 printed |-> {}, exit |-> 0]
    IN  CASE action \in {"status", "info"} ->
               [templates |-> tp,
                obs |-> [base EXCEPT !.count = Cardinality(DOMAIN tp.files),
                                     !.printed = {"status"}]]
          [] action = "list-templates" ->
               [templates |-> tp,
                obs |-> [base EXCEPT
                           !.listed = IF tp.indexed
                                      THEN {e.name : e \in Range(tp.index)}
                                      ELSE DOMAIN tp.files,
                           !.printed = {"templates"}]]
          [] action = "cleanup" ->
               [templates |-> tp,
                obs |-> [base EXCEPT
                           !.count = Cardinality(old),
                           !.printed = IF Cardinality(old) > 0
                                       THEN {"old-templates-found"}
                                       ELSE {"no-old-templates"}]]
          [] action = "cleanup-templates" ->
               [templates |->
                    [tp EXCEPT
                       !.files = [f \in DOMAIN tp.files \ old |-> tp.files[f]],
                       !.index = << >>,
                       !.reset = tp.indexed,
                       !.rebuilt = IF tp.indexed THEN FALSE ELSE @],
                obs |-> [base EXCEPT
                           !.count = Cardinality(old), !.deleted = old,
                           !.printed = IF tp.indexed
                                       THEN {"cleaned", "index-reset"}
                                       ELSE {"cleaned"}]]
          [] OTHER ->
               [templates |-> tp,
                obs |-> [base EXCEPT !.printed = {"unknown-action"}]]

TplTick ==
    /\ \E t \in TplClock : t > now /\ now' = t
    /\ last' = NoObs
    /\ UNCHANGED <<cache, ncalls, caller, sync, writers, templates>>

\* One invocation of observe_query_builder.
QueryBuilder ==
    /\ ncalls < TplCalls
    /\ \E ty \in {Unset, Val("custom"), Val("error_analysis"),
                   Val("log_aggregation")},
          cq \in {Unset, Val("filter level == \"ERROR\" | limit 10"),
                  Val("filter rate_limit > 5"), Val("filter level == \"ERROR\"")},
          sv \in {Unset, Val("false")} :
         LET a == [NoBuilderArgs EXCEPT !.query_type = ty, !.custom_query = cq,
                                        !.save_template = sv]
             r == RunBuilder(a, templates, now)
         IN  /\ templates' = r.templates
             /\ last' = r.obs
    /\ ncalls' = ncalls + 1
    /\ UNCHANGED <<now, cache, caller, sync, writers>>

\* One invocation of observe_workspace_manager.
ObserveManager ==
    /\ ncalls < TplCalls
    /\ \E a \in {Unset, Val("list-templates"), Val("cleanup"),
                  Val("cleanup-templates"), Val("purge")} :
         LET r == RunObserveManager(a, templates, now)
         IN  /\ templates' = r.templates
             /\ last' = r.obs
    /\ ncalls' = ncalls + 1
    /\ UNCHANGED <<now, cache, caller, sync, writers>>

TplNext == TplTick \/ QueryBuilder \/ ObserveManager

TplSpec == Init /\ [][TplNext]_vars

----------------------------------------------------------------------------
(* Two invocations of one read tool at the same time, with the same key *)

RaceChunk == 2      \* characters of the first write of a response in two writes

Procs == {1, 2}

Other(p) == 3 - p

\* The responses the vendor gives to the two requests.
RaceResults ==
    {[rc |-> 0, body |-> "aaaa\n"], [rc |-> 0, body |-> "bb\n"],
     [rc |-> 22, body |-> ""]}

\* $CACHE_FILE of the two invocations: same tool, same arguments, same clock
\* bucket.
RaceFile == CACHE_FILE(caller, NoArgs, now)

\* The byte of a hole, where a file was written past its end.
Hole == "0"

RECURSIVE Holes(_)
Holes(n) == IF n <= 0 THEN "" ELSE Hole \o Holes(n - 1)

\* write(2) on a descriptor opened with O_APPEND: the bytes go to the end of
\* the file.
WriteAppend(content, offset, w) == content \o w

\* write(2) of string w at the descriptor's own offset into a file that
\* holds content: the bytes before the offset stay (a hole when the file is
\* shorter), w replaces what was there, the bytes after w stay.
WriteAt(content, offset, w) ==
    LET before == IF Len(content) >= offset THEN SubSeq(content, 1, offset)
                  ELSE content \o Holes(offset - Len(content))
        after == IF Len(content) > offset + Len(w)
                 THEN SubSeq(content, offset + Len(w) + 1, Len(content))
                 ELSE ""
    IN  before \o w \o after

\* The test of the cache at the start of the script.
RaceCheck(p) ==
    /\ writers[p].pc = "idle"
    /\ writers' =
         IF UseCache(cache, RaceFile, TTL(caller), now, NoArgs)
         THEN [writers EXCEPT ![p].pc = "done", ![p].hit = TRUE,
                              ![p].RESPONSE = CmdSubst(cache[RaceFile].content),
                              ![p].exit = 0]
         ELSE [writers EXCEPT ![p].pc = "fetch"]
    /\ UNCHANGED <<now, cache, last, ncalls, caller, sync, templates>>

\* RESPONSE=$(curl ...), the test of $? and the test [ -n "$RESPONSE" ]
RaceFetch(p) ==
    /\ writers[p].pc = "fetch"
    /\ \E pf \in RaceResults :
         writers' =
           IF FetchFailed(pf.rc)
           THEN [writers EXCEPT ![p].pc = "done", ![p].exit = 1]
           ELSE IF NonEmpty(CmdSubst(pf.body))
           THEN [writers EXCEPT ![p].pc = "open",
                                ![p].RESPONSE = CmdSubst(pf.body)]
           ELSE [writers EXCEPT ![p].pc = "done",
                                ![p].RESPONSE = CmdSubst(pf.body),
                                ![p].exit = 0]
    /\ UNCHANGED <<now, cache, last, ncalls, caller, sync, templates>>

\* > "$CACHE_FILE": the shell opens the file for writing, creating it or
\* cutting it to length 0, with the offset at 0.
RaceOpen(p) ==
    /\ writers[p].pc = "open"
    /\ cache' = [f \in DOMAIN cache \cup {RaceFile} |->
                   IF f = RaceFile THEN [mtime |-> now, content |-> ""]
                   ELSE cache[f]]
    /\ writers' = [writers EXCEPT
                     ![p].pc = "write",
                     ![p].left = Echo(writers[p].RESPONSE),
                     ![p].offset = 0,
                     ![p].order = writers[Other(p)].order + 1,
                     ![p].overlap = writers[Other(p)].pc = "write"]
    /\ UNCHANGED <<now, last, ncalls, caller, sync, templates>>

\* echo "$RESPONSE": one write of all that is left, or a first write of
\* RaceChunk characters; the script ends when nothing is left.
RaceWrite(p) ==
    /\ writers[p].pc = "write"
    /\ \E n \in {RaceChunk, Len(writers[p].left)} :
         /\ n <= Len(writers[p].left)
         /\ LET w == SubSeq(writers[p].left, 1, n)
                rest == SubSeq(writers[p].left, n + 1, Len(writers[p].left))
            IN  /\ cache' = [cache EXCEPT
                               ![RaceFile] =
                                   [mtime |-> now,
                                    content |-> WriteAt(cache[RaceFile].content,
                                                        writers[p].offset, w)]]
                /\ writers' = [writers EXCEPT
                                 ![p].left = rest,
                                 ![p].offset = @ + n,
                                 ![p].pc = IF rest = "" THEN "done" ELSE "write",
                                 ![p].exit = IF rest = "" THEN 0 ELSE @]
    /\ UNCHANGED <<now, last, ncalls, caller, sync, templates>>

RaceNext ==
    \E p \in Procs : RaceCheck(p) \/ RaceFetch(p) \/ RaceOpen(p) \/ RaceWrite(p)

RaceSpec == Init /\ [][RaceNext]_vars

----------------------------------------------------------------------------
(* process_csv_to_s3 *)

NoDataArgs ==
    [data_source |-> Unset, data_content |-> Unset, output_location |-> Unset,
     s3_bucket |-> Unset, s3_key |-> Unset]

\* The mode the script chooses: direct content when data_content is neither
\* empty nor the placeholder left unreplaced.
PROCESSING_MODE(a) ==
    IF Expand(a.data_content) /= ""
         /\ Expand(a.data_content) /= "${data_content}"
    THEN "content" ELSE "file"

\* What process_data.py did: "ok" wrote the output file and uploaded it,
\* "upload-failed" wrote the output file and failed to upload it,
\* "processing-failed" raised or found no data before writing anything.
PythonOutcomes == {"ok", "upload-failed", "processing-failed"}

\* sys.exit(0 if success else 1)
PythonExit(outcome) == IF outcome = "ok" THEN 0 ELSE 1

\* The exit status of rm -f "$CSV_TEMP_FILE"
RmStatus == 0

\* The $? that the test after the two branches reads: the status of the
\* last command of the branch taken.
BranchStatus(mode, outcome) ==
    IF mode = "content" THEN RmStatus ELSE PythonExit(outcome)

\* head -20 "/tmp/processed_data.json"
HeadStatus(written) == IF written THEN 0 ELSE 1

\* One invocation; stale: /tmp/processed_data.json was there before.
RunData(a, outcome, stale) ==
    LET mode    == PROCESSING_MODE(a)
        written == stale \/ outcome /= "processing-failed"
        status  == BranchStatus(mode, outcome)
    IN  [tool |-> "process_csv_to_s3", args |-> a, mode |-> mode,
         outcome |-> outcome, python |-> PythonExit(outcome),
         printed |-> IF status = 0 THEN {"completed-successfully", "sample"}
                     ELSE {"processing-failed"},
         exit |-> IF status = 0 THEN HeadStatus(written) ELSE 1]

DataTool ==
    /\ \E src \in {Unset, Val("/data/in.csv")},
          content \in {Unset, Val(""), Val("${data_content}"),
                       Val("Source,Content Description")},
          bucket \in {Val("rights"), Val("archive")},
          key \in {Val("out.json"), Val("2024/out.json")},
          outcome \in PythonOutcomes, stale \in BOOLEAN :
         LET a == [NoDataArgs EXCEPT !.data_source = src,
                                     !.data_content = content,
                                     !.output_location = Val("s3://rights/out.json"),
                                     !.s3_bucket = bucket, !.s3_key = key]
         IN  /\ (PROCESSING_MODE(a) = "file" /\ Expand(src) = "")
                   => outcome = "processing-failed"
             /\ last' = RunData(a, outcome, stale)
    /\ UNCHANGED <<now, cache, ncalls, caller, sync, writers, templates>>

DataSpec == Init /\ [][DataTool]_vars

----------------------------------------------------------------------------
(* argocd_list_applications: the filters and the page *)

MaxItems == 3       \* applications in a response

\* The items of a response: the applications in server order, each with the
\* fields the filters read.
HealthStatuses == {"Healthy", "Degraded"}
SyncStatuses == {"Synced", "OutOfSync"}

Numbered(q) == [i \in DOMAIN q |-> [name |-> i, health |-> q[i].health,
                                    sync |-> q[i].sync]]

ItemLists ==
    UNION {{Numbered(q) :
              q \in [1..n -> [health : HealthStatuses, sync : SyncStatuses]]}
           : n \in 0..MaxItems}

\* --argjson: the number a string of decimal digits denotes.
DigitValue(c) ==
    CASE c = "0" -> 0 [] c = "1" -> 1 [] c = "2" -> 2 [] c = "3" -> 3
      [] c = "4" -> 4 [] c = "5" -> 5 [] c = "6" -> 6 [] c = "7" -> 7
      [] c = "8" -> 8 [] c = "9" -> 9

RECURSIVE JsonNumber(_)
JsonNumber(s) ==
    IF Len(s) = 0 THEN 0
    ELSE 10 * JsonNumber(SubSeq(s, 1, Len(s) - 1))
           + DigitValue(SubSeq(s, Len(s), Len(s)))

\* jq map(select(.status.health.status == $health)), skipped when the filter
\* is empty; then the same for the sync status.
FilterHealth(items, a) ==
    IF Expand(a.health_filter) /= ""
    THEN SelectSeq(items, LAMBDA it : it.health = Expand(a.health_filter))
    ELSE items

FilterSync(items, a) ==
    IF Expand(a.sync_filter) /= ""
    THEN SelectSeq(items, LAMBDA it : it.sync = Expand(a.sync_filter))
    ELSE items

FILTERED_RESPONSE(items, a) == FilterSync(FilterHealth(items, a), a)

\* jq .[from:to] with indices that are not negative: the items from index
\* from, counted from 0, up to and excluding index to, both cut at the end
\* of the list.
Slice(q, from, to) ==
    LET lo == IF from < Len(q) THEN from ELSE Len(q)
        hi == IF to < Len(q) THEN to ELSE Len(q)
    IN  SubSeq(q, lo + 1, hi)

\* jq '.items | .[$offset:$offset+$limit]', and the slice that ends at $limit.
PaginateEndAtLimit(q, limit, offset) == Slice(q, offset, limit)

Paginate(q, limit, offset) == Slice(q, offset, offset + limit)

PAGINATED_RESPONSE(items, a) ==
    Paginate(FILTERED_RESPONSE(items, a), JsonNumber(LIMIT(a)), JsonNumber(OFFSET(a)))

\* One invocation that received the response items: what it lists.
RunPage(a, items) ==
    [tool |-> "argocd_list_applications", args |-> a, items |-> items,
     TOTAL_COUNT |-> Len(FILTERED_RESPONSE(items, a)),
     page |-> PAGINATED_RESPONSE(items, a)]

ListPage ==
    /\ last = NoObs
    /\ \E items \in ItemLists,
          limit \in {Unset, Val("1"), Val("2")},
          offset \in {Unset, Val("0"), Val("1"), Val("2"), Val("3"), Val("4")},
          health \in {Unset, Val("Healthy"), Val("Degraded")},
          sy \in {Unset, Val(""), Val("Synced")} :
         last' = RunPage([NoArgs EXCEPT !.limit = limit, !.offset = offset,
                                        !.health_filter = health,
                                        !.sync_filter = sy], items)
    /\ UNCHANGED <<now, cache, ncalls, caller, sync, writers, templates>>

PageSpec == Init /\ [][ListPage]_vars

----------------------------------------------------------------------------
(* What the scripts print of their credentials: one run and its twin *)

\* The values a secret credential takes.
SecretValues == {"s3cr3t-a", "s3cr3t-b"}

Secrets ==
    [DD_API_KEY : SecretValues, DD_APP_KEY : SecretValues,
     OBSERVE_API_KEY : SecretValues]

\* What dog and the Observe endpoint answer.
DogReplies == {"", "[{\"id\": 1}]"}

\* $DOG_CMD --application-key ${DD_APP_KEY} --api-key ${DD_API_KEY}
\*          --api_host ${DD_SITE} --timeout 120 <arguments>
DogCommandLine(keys, site, arguments) ==
    "dog --application-key " \o keys.DD_APP_KEY \o " --api-key "
        \o keys.DD_API_KEY \o " --api_host " \o site \o " --timeout 120 "
        \o arguments

\* The standard output of a Datadog script from its banner on:
\*   command   the line echo "Command: ..."
\*   dog       what dog printed (timeout 180 ... 2>&1)
\*   printed   the messages after the command, as DogResult has them
\*   syntax    the line "Check command syntax: ..." of datadog_cli_command
\*             after exit status 1 ("" when not printed)
DatadogStdout(tool, keys, site, command, f, status, reply) ==
    LET r == DogResult(tool, command, f, status)
        line == DogCommandLine(keys, site, r.CMD)
    IN  [command |-> "Command: " \o line,
         dog |-> reply,
         printed |-> r.printed,
         syntax |-> IF tool = "datadog_cli_command" /\ status = 1
                    THEN "Check command syntax: " \o line ELSE ""]

\* --header "Authorization: Bearer $OBSERVE_CUSTOMER_ID $OBSERVE_API_KEY"
ObserveAuthorization(keys, customer) ==
    "Authorization: Bearer " \o customer \o " " \o keys.OBSERVE_API_KEY

\* The standard output of one pass of the region loop of observe_opal_query:
\* the URL, the customer ID, the curl command as the script shows it, and
\* the exit status of curl.
ObserveStdout(keys, customer, region, status) ==
    [url |-> "https://" \o customer \o "." \o region
               \o ".observeinc.com/v1/meta/export/query",
     customer |-> customer,
     debug |-> "Authorization: Bearer " \o customer \o " [HIDDEN]",
     curl |-> status]

\* A run of a Datadog script and a second run that differs from it in the
\* secret credentials at most.
DatadogTwice ==
    /\ last = NoObs
    /\ \E tool \in DatadogTools, k1 \in Secrets, k2 \in Secrets,
          command \in DogCommands, f \in MonitorFilters,
          status \in DogStatuses, reply \in DogReplies :
         /\ tool = "datadog_cli_command" => \A k \in DOMAIN f : f[k] = ""
         /\ tool = "datadog_list_monitors" => command = "monitor show_all"
         /\ k1.OBSERVE_API_KEY = k2.OBSERVE_API_KEY
         /\ last' = [tool |-> tool, secrets |-> <<k1, k2>>,
                     stdout |-> <<DatadogStdout(tool, k1, "datadoghq.com",
                                                command, f, status, reply),
                                  DatadogStdout(tool, k2, "datadoghq.com",
                                                command, f, status, reply)>>]
    /\ UNCHANGED <<now, cache, ncalls, caller, sync, writers, templates>>

\* The same for observe_opal_query.
ObserveTwice ==
    /\ last = NoObs
    /\ \E k1 \in Secrets, k2 \in Secrets, customer \in {"101", "202"},
          i \in DOMAIN Regions,
          status \in {0} \cup CurlStatuses("observe_opal_query") :
         /\ k1.DD_API_KEY = k2.DD_API_KEY /\ k1.DD_APP_KEY = k2.DD_APP_KEY
         /\ last' = [tool |-> "observe_opal_query", secrets |-> <<k1, k2>>,
                     sent |-> <<ObserveAuthorization(k1, customer),
                                ObserveAuthorization(k2, customer)>>,
                     stdout |-> <<ObserveStdout(k1, customer, Regions[i], status),
                                  ObserveStdout(k2, customer, Regions[i], status)>>]
    /\ UNCHANGED <<now, cache, ncalls, caller, sync, writers, templates>>

SecretNext == DatadogTwice \/ ObserveTwice

SecretSpec == Init /\ [][SecretNext]_vars

----------------------------------------------------------------------------
(* Registration: the constructors of the CLITools classes *)

\* The modules that define a class CLITools and construct it on import.
Modules ==
    {"argocd_cli", "azure_cli", "bicep_template", "datadog_cli", "github_cli",
     "helm_cli", "observe_cli"}

Under(group, names) == [i \in DOMAIN names |-> [group |-> group, name |-> names[i]]]

\* The calls tool_registry.register(group, tool) of each constructor, in the
\* order in which it makes them.
ArgoRegistrations ==
    Under("argocd_cli",
          <<"argocd_list_applications", "argocd_get_application",
            "argocd_list_clusters", "argocd_list_repositories",
            "argocd_sync_application", "argocd_application_history",
            "argocd_workspace_manager">>)

AzureRegistrations ==
    <<[group |-> "azure_cli", name |-> "azure_cli"],
      [group |-> "azure_subscriptions_list", name |-> "azure_subscriptions_list"]>>

BicepRegistrations == Under("bicep_template", <<"bicep_template">>)

DatadogRegistrations ==
    Under("datadog_cli", <<"datadog_cli_command", "datadog_list_monitors">>)

GithubRegistrations == Under("github_cli", <<"github_cli">>)

HelmRegistrations == Under("helm_cli", <<"helm_cli_command">>)

ObserveRegistrations ==
    Under("observe_cli",
          <<"observe_opal_query", "observe_query_builder",
            "observe_dataset_analyzer", "observe_performance_monitor",
            "observe_workspace_manager">>)

Registrations(module) ==
    CASE module = "argocd_cli" -> ArgoRegistrations
      [] module = "azure_cli" -> AzureRegistrations
      [] module = "bicep_template" -> BicepRegistrations
      [] module = "datadog_cli" -> DatadogRegistrations
      [] module = "github_cli" -> GithubRegistrations
      [] module = "helm_cli" -> HelmRegistrations
      [] module = "observe_cli" -> ObserveRegistrations

\* The import of a module begins: CLITools() is about to make its first
\* call of register.  The fields of a construction:
\*   pc          "registering", "returned" or "raised" (the exception left
\*               the constructor)
\*   next        the index of the call of register to make next
\*   registered  the calls of register that returned, in order
\*   failed      the index of the call that raised (0: none)
Import ==
    /\ last = NoObs
    /\ \E module \in Modules :
         last' = [tool |-> "import", module |-> module, pc |-> "registering",
                  next |-> 1, registered |-> << >>, failed |-> 0]
    /\ UNCHANGED <<now, cache, ncalls, caller, sync, writers, templates>>

\* tool_registry.register(group, tool) returns.
RegisterReturns ==
    /\ last.tool = "import" /\ last.pc = "registering"
    /\ LET calls == Registrations(last.module)
       IN  last' = [last EXCEPT
                      !.registered = Append(@, calls[last.next]),
                      !.next = @ + 1,
                      !.pc = IF last.next = Len(calls) THEN "returned"
                             ELSE "registering"]
    /\ UNCHANGED <<now, cache, ncalls, caller, sync, writers, templates>>

\* tool_registry.register(group, tool) raises: the handlers print and raise
\* again, the constructor is left.
RegisterRaises ==
    /\ last.tool = "import" /\ last.pc = "registering"
    /\ last' = [last EXCEPT !.failed = last.next, !.pc = "raised"]
    /\ UNCHANGED <<now, cache, ncalls, caller, sync, writers, templates>>

ImportNext == Import \/ RegisterReturns \/ RegisterRaises

ImportSpec == Init /\ [][ImportNext]_vars

----------------------------------------------------------------------------
(* Vocabulary of the properties *)

\* The step is an invocation of a read tool that passed its validation.
ReadStep == ncalls' = ncalls + 1 /\ last'.tool \in Tools /\ last'.valid

\* The invocation observed in last' does not ask for a refresh.
NoRefresh == last'.refresh /= "true"

\* Directory c holds a response that an invocation of the tool with
\* arguments a stored at minute t0.
StoredAt(c, tool, a, t0) ==
    /\ CACHE_FILE(tool, a, t0) \in DOMAIN c
    /\ c[CACHE_FILE(tool, a, t0)].mtime = t0

\* Directory c holds every response that an invocation of the tool with
\* arguments a fetches, stored at minute t0: the primary response and, for
\* argocd_get_application with include_resources, the resource tree.
StoredAllAt(c, tool, a, t0) ==
    /\ StoredAt(c, tool, a, t0)
    /\ (tool = "app" /\ INCLUDE_RESOURCES(a) = "true")
       => /\ RESOURCES_CACHE(a, t0) \in DOMAIN c
          /\ c[RESOURCES_CACHE(a, t0)].mtime = t0

----------------------------------------------------------------------------
(* C1: TTL hit *)

\* C1 as claimed: if an invocation stored its response at minute t0, every
\* later invocation of the same tool with the same parameters and
\* refresh != true at a minute less than TTL after t0 is served from the
\* cache without any vendor request.
C1_HitWithinTTL_AsClaimed ==
    [][ReadStep /\ NoRefresh
       => \A t0 \in ClockReadings :
            (/\ t0 <= now
             /\ StoredAllAt(cache, last'.tool, last'.args, t0)
             /\ now - t0 < TTL(last'.tool))
            => last'.hit /\ last'.requests = <<>>]_vars

\* C1, amended: if an invocation stored a response at minute t0, every
\* later invocation of the same tool with the same parameters and
\* refresh != true, made less than TTL after t0 and in the time bucket of t0
\* (the same clock hour for the list tools, the same clock minute for
\* argocd_get_application), reads that response from the cache, hands it to
\* its output stage and sends no request for it; it sends no vendor request
\* at all when the earlier invocation stored every response it fetched
\* (argocd_get_application: the resource tree too).
C1_HitWithinTTLSameBucket ==
    [][ReadStep /\ NoRefresh
       => \A t0 \in ClockReadings :
            (/\ t0 <= now
             /\ StoredAt(cache, last'.tool, last'.args, t0)
             /\ now - t0 < TTL(last'.tool)
             /\ Bucket(last'.tool, t0) = Bucket(last'.tool, now))
            => /\ last'.hit
               /\ last'.out = CmdSubst(cache[last'.path].content)
               /\ "primary" \notin Range(last'.requests)
               /\ StoredAllAt(cache, last'.tool, last'.args, t0)
                  => last'.requests = <<>>]_vars

\* A list tool was served from an entry stored earlier in the same hour.
C1_Witness ==
    /\ last.tool = "apps"
    /\ last.hit
    /\ last.requests = <<>>
    /\ cache[last.path].mtime < now
    /\ last.out = "r1"

----------------------------------------------------------------------------
(* C2: TTL miss *)

\* C2: an invocation with refresh != true whose cache entry has an age
\* greater than or equal to the TTL does not serve the entry: it sends the
\* primary vendor request, and what it hands to its output stage is what
\* that request returned.
C2_MissAtTTL ==
    [][(/\ ReadStep /\ NoRefresh
        /\ last'.path \in DOMAIN cache
        /\ now - cache[last'.path].mtime >= TTL(last'.tool))
       => /\ ~last'.hit
          /\ Len(last'.requests) > 0
          /\ Head(last'.requests) = "primary"
          /\ last'.printed => last'.out = last'.fetched]_vars

\* An entry of age >= TTL was passed over and the live response printed.
C2_Witness ==
    /\ last.valid
    /\ last.refresh /= "true"
    /\ last.old = "r1"
    /\ ~last.fresh
    /\ ~last.hit
    /\ last.requests = <<"primary">>
    /\ last.out = "r2"

----------------------------------------------------------------------------
(* C3: idempotent refresh *)

\* The step is the second of two invocations in immediate succession with
\* identical parameters and refresh != true, the first of which started
\* from an empty cache and had its vendor call succeed.
SecondOfTwo ==
    /\ ncalls = 1
    /\ last.valid
    /\ last.refresh /= "true"
    /\ last.fetchrc = 0
    /\ ReadStep
    /\ last'.args = last.args

\* C3 as claimed: the two invocations send exactly one vendor request in
\* total, and the second is served from the cache.
C3_OneFetch_AsClaimed ==
    [][SecondOfTwo
       => /\ Len(last.requests) + Len(last'.requests) = 1
          /\ last'.hit]_vars

\* C3, amended: when the first invocation's response is non-empty and its
\* write to the cache succeeds, the two invocations (made in the same time
\* bucket) send exactly one primary vendor request in total, and the second
\* is served from the cache with the response the first one fetched.
C3_OneFetchWhenStored ==
    [][SecondOfTwo /\ last.stored
       => /\ last.requests[1] = "primary"
          /\ "primary" \notin Range(last'.requests)
          /\ last'.hit
          /\ last'.out = last.fetched]_vars

\* The second of two immediate invocations was served from the cache.
C3_Witness ==
    /\ ncalls = 2
    /\ last.hit
    /\ cache[last.path].mtime = now
    /\ last.requests = <<>>

----------------------------------------------------------------------------
(* C4: force-refresh bypass *)

\* C4: an invocation with refresh = true (that passed its validation) sends
\* the primary vendor request and does not read the cache, whatever the
\* state and the freshness of the entry for its key.
C4_RefreshFetches ==
    last.tool \in Tools /\ last.valid /\ last.refresh = "true"
    => /\ ~last.hit
       /\ Len(last.requests) > 0
       /\ Head(last.requests) = "primary"

\* A refresh invocation fetched although its entry was fresh.
C4_Witness ==
    /\ last.valid
    /\ last.refresh = "true"
    /\ last.fresh
    /\ last.requests /= <<>>

----------------------------------------------------------------------------
(* C5: force-refresh overwrite *)

\* The invocation observed in last is one with refresh = true whose vendor
\* fetch succeeded.
RefreshFetched ==
    /\ last.tool \in Tools /\ last.valid /\ last.refresh = "true"
    /\ last.requests /= <<>> /\ last.fetchrc = 0

\* C5 as claimed: after an invocation with refresh = true whose vendor fetch
\* succeeded, the cache entry of its key holds exactly the response fetched.
C5_RefreshOverwrites_AsClaimed ==
    RefreshFetched
    => /\ last.path \in DOMAIN cache
       /\ CmdSubst(cache[last.path].content) = last.fetched

\* C5, amended: after an invocation with refresh = true whose vendor fetch
\* succeeded with a non-empty response and whose write to the cache
\* succeeded, the cache entry of its key holds exactly the response fetched,
\* with the time of the invocation; and an invocation served from the cache
\* prints what the entry of its key holds, so the next non-refresh
\* invocation with the same key within the TTL prints the new response.
C5_RefreshOverwritesWhenStored ==
    [][/\ (RefreshFetched /\ last.stored)'
          => /\ last'.path \in DOMAIN cache'
             /\ cache'[last'.path] =
                  [mtime |-> now, content |-> Echo(last'.fetched)]
       /\ (ReadStep /\ last'.hit)
          => last'.out = CmdSubst(cache[last'.path].content)]_vars

\* A refresh invocation replaced an older, different response.
C5_Witness ==
    /\ RefreshFetched
    /\ last.stored
    /\ last.old = "r1"
    /\ last.fetched = "r2"
    /\ cache[last.path].content = "r2\n"

----------------------------------------------------------------------------
(* C6: no stale fallback *)

----------------------------------------------------------------------------
(* C7: best-effort caching *)

\* C7: when the write of a fetched response to the cache fails, the tool
\* still hands the fetched response to its output stage and ends with the
\* exit status it has when the write succeeds (0).
C7_BestEffortCaching ==
    last.tool \in Tools /\ last.valid /\ last.want
    => /\ last.printed
       /\ last.out = last.fetched
       /\ last.exit = 0

\* A write to the cache failed after a successful fetch.
C7_Witness ==
    /\ last.valid
    /\ last.want
    /\ ~last.stored
    /\ last.out = "r1"

----------------------------------------------------------------------------
(* C8: key determinism *)

\* The value of an argument as the tool's declaration documents it: the
\* documented default d when the argument is left unset or passed empty.
Documented(x, d) == IF ~x.set \/ x.val = "" THEN d ELSE x.val

\* The parameter values of a call that the tool's key is derived from.
KeyParams(tool, a) ==
    CASE tool = "apps" ->
           <<Documented(a.limit, "50"), Documented(a.offset, "0"),
             Documented(a.project_filter, ""), Documented(a.health_filter, ""),
             Documented(a.sync_filter, "")>>
      [] tool = "app" -> <<Documented(a.app_name, "")>>
      [] tool = "clusters" -> <<>>
      [] tool = "repos" -> <<Documented(a.repo_type, "all")>>

\* The step is the later of two invocations of one tool, both past their
\* validation, made in the same time bucket.
PairInBucket ==
    /\ last.tool = caller /\ last.valid
    /\ ReadStep
    /\ Bucket(caller, last.time) = Bucket(caller, now)

\* C8: two invocations of a read tool with the same parameter values (an
\* optional parameter left unset counting as the same parameter passed
\* empty, and as its documented default) in the same time bucket derive the
\* same key and the same cache file, so that the later one is served from
\* the entry the earlier one stored while that entry is younger than the TTL.
C8_KeyDeterminism ==
    [][PairInBucket /\ KeyParams(caller, last.args) = KeyParams(caller, last'.args)
       => /\ last'.key = last.key
          /\ last'.path = last.path
          /\ (last.stored /\ now - last.time < TTL(caller))
             => last'.hit /\ "primary" \notin Range(last'.requests)]_vars

\* An invocation that passed project_filter as the empty string was served
\* from the entry of the invocations that leave it unset.
C8_Witness ==
    /\ last.tool = "apps"
    /\ last.args.project_filter = Val("")
    /\ last.hit
    /\ last.path = CACHE_FILE("apps", NoArgs, now)
    /\ cache[last.path].mtime < now

----------------------------------------------------------------------------
(* C9: key sensitivity *)

\* The string contains the character that joins the parts of the key string.
RECURSIVE HasUnderscore(_)
HasUnderscore(s) ==
    /\ Len(s) > 0
    /\ \/ SubSeq(s, 1, 1) = "_"
       \/ HasUnderscore(SubSeq(s, 2, Len(s)))

\* No parameter value of the call contains "_".
PlainParams(tool, a) ==
    \A i \in 1..Len(KeyParams(tool, a)) : ~HasUnderscore(KeyParams(tool, a)[i])

\* C9 as claimed: two argocd_list_applications invocations in the same time
\* bucket whose (limit, offset, project_filter, health_filter, sync_filter)
\* tuples differ derive different keys and cache files, so the later one is
\* not served from the entry of the earlier one.
C9_KeySensitivity_AsClaimed ==
    [][(/\ PairInBucket /\ caller = "apps"
        /\ KeyParams(caller, last.args) /= KeyParams(caller, last'.args))
       => /\ last'.key /= last.key
          /\ last'.path /= last.path]_vars

\* C9, amended: two argocd_list_applications invocations in the same time
\* bucket whose (limit, offset, project_filter, health_filter, sync_filter)
\* tuples (after defaulting) differ, and whose values contain no "_", derive
\* different keys and cache files; the later one is never served from the
\* entry of the earlier one, and sends its own request when the cache held
\* nothing before the earlier one.
C9_KeySensitivityPlain ==
    [][(/\ PairInBucket /\ caller = "apps"
        /\ KeyParams(caller, last.args) /= KeyParams(caller, last'.args)
        /\ PlainParams(caller, last.args) /\ PlainParams(caller, last'.args))
       => /\ last'.key /= last.key
          /\ last'.path /= last.path
          /\ ncalls = 1 => ~last'.hit /\ last'.requests = <<"primary">>]_vars

\* A call with project_filter = "prod" fetched for itself right after a
\* call without filter had stored its response.
C9_Witness ==
    /\ caller = "apps"
    /\ ncalls = 2
    /\ last.args.project_filter = Val("prod")
    /\ CACHE_FILE("apps", NoArgs, now) \in DOMAIN cache
    /\ ~last.hit
    /\ last.requests = <<"primary">>
    /\ Cardinality(DOMAIN cache) = 2

----------------------------------------------------------------------------
(* C10: bounded poll with early termination *)

\* The run polls: wait = true, no dry run, and the sync request was accepted.
Polling == sync.pc \in {"sleep", "fetch"}

\* The step sends an operation-status fetch.
PollStep == sync'.polls = sync.polls + 1

\* C10: argocd_sync_application with wait = true (no dry run, sync accepted)
\* sends at most 60 operation-status fetches; each fetch comes after a
\* 5-second sleep of its own; no operation-status fetch follows one that
\* reported Succeeded, Failed or Error; and the run always ends.
C10_BoundedPoll ==
    /\ [](/\ sync.polls <= PollAttempts
          /\ sync.slept = PollSleepSeconds * sync.sleeps
          /\ sync.sleeps = sync.polls + (IF sync.pc = "fetch" THEN 1 ELSE 0)
          /\ sync.polls > 0
             => sync.WAIT_FOR_COMPLETION = "true" /\ sync.DRY_RUN /= "true")
    /\ [][PollStep => /\ sync.sleeps = sync.polls + 1
                      /\ sync'.sleeps = sync'.polls
                      /\ ~sync.terminal]_vars
    /\ (Polling ~> sync.pc = "done")

\* A run whose 60th operation-status fetch, 300 seconds of sleep after the
\* sync request, reported Succeeded, and which then ended.
C10_Witness ==
    /\ sync.pc = "done"
    /\ sync.polls = PollAttempts
    /\ sync.slept = PollSleepSeconds * PollAttempts
    /\ sync.phase = "Succeeded"
    /\ sync.WAIT_FOR_COMPLETION = "true"
    /\ sync.finals = 1

----------------------------------------------------------------------------
(* C11: outcome of an exhausted poll loop *)

\* The poll loop ran all its attempts: the last of them fetched a status
\* that neither ended the loop nor was a terminal phase.
Exhausted ==
    /\ sync.pc \in {"final", "done"}
    /\ sync.polls = PollAttempts
    /\ ~sync.terminal
    /\ "completed-no-operation" \notin sync.printed

\* C11: when the poll loop of argocd_sync_application has used all 60
\* attempts without seeing a terminal phase, the tool prints a timeout
\* message and exits non-zero, or else prints a "completed" message.
C11_TimeoutOutcome ==
    (Exhausted /\ sync.pc = "done")
        => \/ "timeout" \in sync.printed /\ sync.exit > 0
           \/ sync.printed \cap {"completed", "completed-no-operation"} /= {}

----------------------------------------------------------------------------
(* C12: configuration errors *)

\* The credential variables and the required arguments of each tool, as its
\* declaration (secrets, env, Arg(required=True)) and its requests name them.
Needed(tool) ==
    CASE tool \in {"argocd_list_applications", "argocd_list_clusters",
                   "argocd_list_repositories"} -> ArgoCreds
      [] tool \in {"argocd_get_application", "argocd_sync_application",
                   "argocd_application_history"} -> ArgoCreds \cup {"app_name"}
      [] tool = "azure_subscriptions_list" -> AzureCreds
      [] tool = "azure_cli" -> AzureCreds \cup {"command"}
      [] tool = "bicep_template" -> AzureCreds \cup {"template"}
      [] tool = "github_cli" -> {"GH_TOKEN", "command"}
      [] tool = "datadog_cli_command" -> DatadogCreds \cup {"command"}
      [] tool = "datadog_list_monitors" -> DatadogCreds
      [] tool = "observe_opal_query" -> ObserveCreds
      [] tool = "observe_dataset_analyzer" -> ObserveCreds \cup {"dataset_id"}
      [] tool = "observe_performance_monitor" -> ObserveCreds
      [] tool = "confluence_search" -> ConfluenceCreds \cup {"query"}

\* C12: when a credential variable or a required argument of a credentialed
\* tool is empty, the script prints an error, exits with a non-zero status
\* and has sent no request to the vendor.
C12_ConfigurationError ==
    (last.tool \in CredTools /\ \E v \in Needed(last.tool) : last.env[v] = "")
        => /\ last.error /= ""
           /\ last.exit /= 0
           /\ last.requests = 0

\* azure_cli was called with its three credentials and without a command:
\* it ended with an error before installing or logging in.
C12_Witness ==
    /\ last.tool = "azure_cli"
    /\ \A v \in AzureCreds : last.env[v] /= ""
    /\ last.env["command"] = ""
    /\ last.error = "missing"
    /\ last.exit = 1
    /\ last.requests = 0

----------------------------------------------------------------------------
(* C13: transport errors *)

\* The invocation of a read tool observed in last sent a request that failed.
ReadCurlFailed == last.tool \in Tools /\ (last.fetchrc /= 0 \/ last.resrc /= 0)

----------------------------------------------------------------------------
(* C14: region fallback *)

\* A region failed: the request ended non-zero, or its response was not
\* JSON, or was an API error.
RegionFailed(reply) ==
    \/ reply.rc /= 0
    \/ reply.body /= "" /\ ~ValidJson(reply.body)
    \/ ERROR_CHECK(reply.body) /= ""

\* C14: observe_opal_query tries us-1 first and, when us-1 fails, tries eu-1;
\* it uses the first region that succeeds, and it exits 1 with the message
\* about both regions only after both were tried and failed.
C14_RegionFallback ==
    last.tool = "observe_opal_query"
        => /\ last.attempted[1] = "us-1"
           /\ RegionFailed(last.replies[1]) => last.attempted = <<"us-1", "eu-1">>
           /\ ~RegionFailed(last.replies[1]) => last.REGION_USED = "us-1"
           /\ RegionFailed(last.replies[1]) /\ ~RegionFailed(last.replies[2])
                  => last.REGION_USED = "eu-1"
           /\ RegionFailed(last.replies[1]) /\ RegionFailed(last.replies[2])
                  => /\ "failed-both-regions" \in last.printed
                     /\ last.exit = 1
           /\ "failed-both-regions" \in last.printed
                  => /\ last.attempted = <<"us-1", "eu-1">>
                     /\ RegionFailed(last.replies[1])
                     /\ RegionFailed(last.replies[2])

----------------------------------------------------------------------------
(* C15: Datadog exit codes *)

\* C15: datadog_cli_command and datadog_list_monitors print the timeout
\* message and exit 1 when the dog command ends with status 124, print the
\* failure message and exit with the command's status when it ends with
\* another non-zero status, and exit 0 when it ends with 0.
C15_DatadogExitCodes ==
    last.tool \in DatadogTools
        => /\ last.status = 124
                  => "timed-out" \in last.printed /\ last.exit = 1
           /\ last.status \notin {0, 124}
                  => "failed" \in last.printed /\ last.exit = last.status
           /\ last.status = 0 => last.exit = 0

----------------------------------------------------------------------------
(* C16: the life of a cache file *)

\* The step is an invocation of argocd_workspace_manager with the action
\* cleanup or clear-cache.
ManagerDeleteStep ==
    /\ ncalls' = ncalls + 1
    /\ last'.tool = "argocd_workspace_manager"
    /\ last'.action \in {"cleanup", "clear-cache"}

\* C16: the set of cache files shrinks in no step but a cleanup or a
\* clear-cache of argocd_workspace_manager: not in an invocation of a read
\* tool, of the sync tool or of the history tool, not in the status,
\* list-cache or stats action of the manager, and not with time or with the
\* number of files.
C16_CacheLifecycle ==
    [][~ManagerDeleteStep => DOMAIN cache \subseteq DOMAIN cache']_vars

\* The stats action of the manager found a cache file more than a day old
\* beside a younger one: neither age nor number had evicted it.
C16_Witness ==
    /\ last.tool = "argocd_workspace_manager"
    /\ last.action = "stats"
    /\ \E f, g \in DOMAIN cache :
         /\ now - cache[f].mtime > CleanupMinutes
         /\ now - cache[g].mtime < AppTTL

----------------------------------------------------------------------------
(* C17: cleanup by age *)

\* C17: the cleanup action deletes exactly the cache files whose age exceeds
\* 24 hours and leaves every younger file; the count it reports as cleaned
\* is the number of files deleted, the count it reports as remaining the
\* number of files left.
C17_CleanupByAge ==
    (last.tool = "argocd_workspace_manager" /\ last.action = "cleanup")
        => /\ last.deleted =
                  {f \in DOMAIN last.before :
                     AgeSeconds(last.before, f, last.time, last.secs)
                         > HoursPerDay * MinutesPerHour * SecondsPerMinute}
           /\ DOMAIN cache = DOMAIN last.before \ last.deleted
           /\ last.counts.CACHE_CLEANED = Cardinality(last.deleted)
           /\ last.counts.REMAINING_CACHE = Cardinality(DOMAIN cache)

----------------------------------------------------------------------------
(* C18: a cache lookup has no side effect *)

\* The invocation observed in last' read the resource tree of its
\* application from the cache.
ResourcesHit ==
    /\ last'.tool = "app"
    /\ last'.printed
    /\ INCLUDE_RESOURCES(last'.args) = "true"
    /\ "resource-tree" \notin Range(last'.requests)

\* C18: an invocation that answers from the cache leaves the entry it read
\* as it was, content and modification time.
C18_LookupNoSideEffect ==
    [][/\ (ReadStep /\ last'.hit)
           => /\ last'.path \in DOMAIN cache
              /\ last'.path \in DOMAIN cache'
              /\ cache'[last'.path] = cache[last'.path]
       /\ (ReadStep /\ ResourcesHit)
           => LET rfile == RESOURCES_CACHE(last'.args, last'.time)
              IN  /\ rfile \in DOMAIN cache
                  /\ rfile \in DOMAIN cache'
                  /\ cache'[rfile] = cache[rfile]]_vars

\* An invocation answered from an entry stored at an earlier minute, and
\* the entry still carries that minute.
C18_Witness ==
    /\ last.hit
    /\ last.path \in DOMAIN cache
    /\ cache[last.path].mtime < last.time
    /\ last.out = CmdSubst(cache[last.path].content)

----------------------------------------------------------------------------
(* C19: concurrent writers *)

\* Both invocations missed the cache, both wrote their response to the
\* cache file, and both have ended.
BothStored ==
    \A p \in Procs :
        /\ writers[p].pc = "done"
        /\ ~writers[p].hit
        /\ writers[p].order > 0

\* The invocation that opened the cache file last.
LastWriter == CHOOSE p \in Procs : writers[p].order > writers[Other(p)].order

\* One invocation opened the file while the other had it open.
Overlapped == \E p \in Procs : writers[p].overlap

\* C19 as claimed: after two invocations with the same key both missed and
\* both stored, the cache file holds the complete response of one of them,
\* never a mixture.
C19_ConcurrentWriters_AsClaimed ==
    BothStored
        => \E p \in Procs : cache[RaceFile].content = Echo(writers[p].RESPONSE)

\* C19 amended: after two invocations with the same key both missed and both
\* stored, the cache file holds the complete response of the last writer
\* when neither opened the file while the other had it open, and it holds
\* the response when both stored the same response.
C19_ConcurrentWritersApart ==
    BothStored
        => /\ ~Overlapped
               => cache[RaceFile].content = Echo(writers[LastWriter].RESPONSE)
           /\ writers[1].RESPONSE = writers[2].RESPONSE
               => cache[RaceFile].content = Echo(writers[1].RESPONSE)

\* Both invocations stored the same response, one opening the file while
\* the other was writing it.
C19_Witness ==
    /\ BothStored
    /\ Overlapped
    /\ writers[1].RESPONSE = writers[2].RESPONSE
    /\ cache[RaceFile].content = Echo(writers[1].RESPONSE)

----------------------------------------------------------------------------
(* C20: exit status of a sync that waits *)

\* C20: a run of argocd_sync_application that polled (wait = true, no dry
\* run, sync accepted) ends with exit status 0 only if its last
\* operation-status fetch reported Succeeded, and with 1 when a fetched phase
\* is Failed or Error.
C20_SuccessOnlyAfterSucceeded ==
    (sync.pc = "done" /\ sync.polls > 0)
        => /\ sync.exit = 0 => sync.phase = "Succeeded"
           /\ sync.phase \in {"Failed", "Error"} => sync.exit = 1

----------------------------------------------------------------------------
(* C21: a dry run never polls *)

\* C21: when the payload posted by argocd_sync_application has dryRun true
\* and the request is accepted, the script prints the dry-run result and
\* exits 0, with no operation-status fetch and no final status fetch.
C21_DryRunNeverPolls ==
    (sync.payload = "true" /\ "initiated" \in sync.printed)
        => /\ sync.pc = "done"
           /\ "dry-run-results" \in sync.printed
           /\ sync.exit = 0
           /\ sync.polls = 0
           /\ sync.finals = 0

----------------------------------------------------------------------------
(* C22: the rollback guard *)

\* C22: argocd_application_history posts to the sync endpoint only when the
\* action is rollback and the revision is not empty; a rollback without a
\* revision, and an action that is none of history, list and rollback, end
\* with exit status 1 and no sync request.
C22_RollbackGuard ==
    last.tool = "argocd_application_history"
        => /\ "rollback" \in Range(last.requests)
                  => last.action = "rollback" /\ Expand(last.args.revision) /= ""
           /\ (last.action = "rollback" /\ Expand(last.args.revision) = "")
                  => last.exit = 1 /\ "rollback" \notin Range(last.requests)
           /\ last.action \notin {"history", "list", "rollback"}
                  => last.exit = 1 /\ "rollback" \notin Range(last.requests)

\* A rollback was asked for without a revision: the history was fetched and
\* the script ended with status 1 before any sync request.
C22_Witness ==
    /\ last.tool = "argocd_application_history"
    /\ last.action = "rollback"
    /\ Expand(last.args.revision) = ""
    /\ last.requests = <<"revisions">>
    /\ last.error = "revision-required"
    /\ last.exit = 1

----------------------------------------------------------------------------
(* C23: the template index after a reset *)

\* The names of the entries of index.json.
IndexNames == {e.name : e \in Range(templates.index)}

\* C23: once a template was saved after cleanup-templates reset index.json,
\* index.json has an entry for every .opal file of the templates directory,
\* and list-templates shows all of them.
C23_IndexRebuild ==
    templates.rebuilt
        => /\ DOMAIN templates.files \subseteq IndexNames
           /\ (last.tool = "observe_workspace_manager"
                  /\ last.action = "list-templates")
                 => DOMAIN templates.files \subseteq last.listed

----------------------------------------------------------------------------
(* C26: the limit of the query builder *)

\* Query q has a limit clause: a stage "limit N" of its pipeline.
HasLimitClause(q) == Contains(q, "| limit ") \/ HasPrefix(q, "limit ")

\* C26: every query observe_query_builder prints as ready has a limit
\* clause, "| limit 1000" being appended to a template or custom query that
\* has none; without a custom_query the custom type ends with exit status 1
\* and nothing saved.
C26_BuilderLimit ==
    last.tool = "observe_query_builder"
        => /\ "ready" \in last.printed
                  => /\ HasLimitClause(last.TEMPLATE)
                     /\ ~HasLimitClause(last.chosen)
                            => last.TEMPLATE = last.chosen \o " | limit 1000"
           /\ (QUERY_TYPE(last.args) = "custom"
                  /\ Expand(last.args.custom_query) = "")
                 => /\ last.exit = 1
                    /\ last.saved = ""
                    /\ "ready" \notin last.printed

----------------------------------------------------------------------------
(* C24: exit status of process_csv_to_s3 *)

\* C24: in file mode and in direct-content mode, process_csv_to_s3 prints
\* that processing and upload completed successfully only when the Python
\* script exited 0, and prints that processing failed and exits 1 whenever
\* the processing or the upload failed.
C24_DataExitStatus ==
    last.tool = "process_csv_to_s3"
        => /\ "completed-successfully" \in last.printed => last.python = 0
           /\ last.outcome /= "ok"
                 => "processing-failed" \in last.printed /\ last.exit = 1

----------------------------------------------------------------------------
(* C25: pagination *)

\* Item it passes every filter that arguments a give.
PassesFilters(it, a) ==
    /\ Expand(a.health_filter) /= "" => it.health = Expand(a.health_filter)
    /\ Expand(a.sync_filter) /= "" => it.sync = Expand(a.sync_filter)

\* The items of the response that pass the filters, in server order.
Remaining(items, a) == SelectSeq(items, LAMBDA it : PassesFilters(it, a))

\* items[offset : offset + limit]
Window(q, limit, offset) ==
    LET n == IF Len(q) <= offset THEN 0
             ELSE IF Len(q) - offset < limit THEN Len(q) - offset ELSE limit
    IN  [i \in 1..n |-> q[offset + i]]

\* The pages at offsets k*limit, (k+1)*limit, ... of the list the invocation
\* with arguments a makes of the response, one after the other.
RECURSIVE PagesFrom(_, _, _)
PagesFrom(items, a, k) ==
    IF k * JsonNumber(LIMIT(a)) >= Len(items) + 1 THEN << >>
    ELSE Paginate(FILTERED_RESPONSE(items, a), JsonNumber(LIMIT(a)),
                  k * JsonNumber(LIMIT(a)))
           \o PagesFrom(items, a, k + 1)

\* C25: argocd_list_applications lists exactly items[offset : offset+limit]
\* of the items that pass the health and sync filters, in server order: at
\* most limit items, each passing every given filter, and the pages at
\* offsets 0, limit, 2*limit, ... of one response hold every such item
\* exactly once.
C25_Pagination ==
    last.tool = "argocd_list_applications" /\ "page" \in DOMAIN last
        => LET a == last.args
               L == JsonNumber(LIMIT(a))
           IN  /\ last.page = Window(Remaining(last.items, a), L,
                                     JsonNumber(OFFSET(a)))
               /\ Len(last.page) <= L
               /\ \A i \in DOMAIN last.page : PassesFilters(last.page[i], a)
               /\ PagesFrom(last.items, a, 0) = Remaining(last.items, a)

\* A second page, not empty, of a filtered list.
C25_Witness ==
    /\ last.tool = "argocd_list_applications" /\ "page" \in DOMAIN last
    /\ Expand(last.args.health_filter) = "Healthy"
    /\ JsonNumber(OFFSET(last.args)) = 1 /\ JsonNumber(LIMIT(last.args)) = 1
    /\ Len(last.page) = 1
    /\ Len(last.items) = 3 /\ last.TOTAL_COUNT = 2

----------------------------------------------------------------------------
(* C27: what the cache files hold *)

\* The step created file p of the cache directory or changed it.
Written(p) == p \notin DOMAIN cache \/ cache'[p] /= cache[p]

\* C27: a read tool writes a cache file only with the response, not empty,
\* of a request of its own that curl ended with status 0; after a failed
\* fetch or an empty response every cache file is as it was, and none is
\* new.
C27_CacheContent ==
    [][\A p \in DOMAIN cache' :
         Written(p)
           => \/ /\ p = last'.path
                 /\ "primary" \in Range(last'.requests)
                 /\ last'.fetchrc = 0
                 /\ last'.fetched /= ""
                 /\ cache'[p].content = Echo(last'.fetched)
              \/ /\ last'.tool = "app"
                 /\ p = RESOURCES_CACHE(last'.args, last'.time)
                 /\ "resource-tree" \in Range(last'.requests)
                 /\ last'.resrc = 0
                 /\ last'.resOut /= ""
                 /\ cache'[p].content = Echo(last'.resOut)]_vars

\* argocd_get_application stored the application it fetched, and its
\* resource-tree request failed or came back empty: no resources file.
C27_Witness ==
    /\ last.tool = "app" /\ last.valid /\ last.stored
    /\ cache[last.path].content = Echo(last.fetched)
    /\ "resource-tree" \in Range(last.requests)
    /\ (last.resrc /= 0 \/ last.resOut = "")
    /\ RESOURCES_CACHE(last.args, last.time) \notin DOMAIN cache

----------------------------------------------------------------------------
(* C28: secrets stay out of the output *)

\* C28: two runs of a tool that differ in the values of the secret
\* credentials only, and get the same answers from the vendor, print the
\* same standard output.
C28_SecretsOut ==
    "stdout" \in DOMAIN last => last.stdout[1] = last.stdout[2]

----------------------------------------------------------------------------
(* C29: registration on import *)

\* The names of the tools of a module, in the order of its list.
ToolNames(module) ==
    [i \in DOMAIN Registrations(module) |-> Registrations(module)[i].name]

\* C29: the constructor registers its tools one by one, in list order, each
\* under the group name of its module; a registration that raises ends the
\* constructor with the exception, the tools before it registered and none
\* after it; when none raises, every tool of the list is registered once.
C29_RegistrationOnImport ==
    last.tool = "import"
        => /\ \A i \in DOMAIN last.registered :
                last.registered[i] =
                    [group |-> last.module, name |-> ToolNames(last.module)[i]]
           /\ last.failed /= 0
                 => /\ last.pc = "raised"
                    /\ Len(last.registered) = last.failed - 1
           /\ last.pc = "returned"
                 => /\ last.failed = 0
                    /\ Len(last.registered) = Len(ToolNames(last.module))

====
